---- MODULE Spec2Model ----
(***************************************************************************)
(* The EVM runtime layer (runtime/src/lib.rs, runtime/src/eval/system.rs): *)
(* one Runtime frame driven by step()/run(), its system-opcode dispatch    *)
(* and the two merge points save_return_value / save_created_address.      *)
(*                                                                         *)
(* Words are natural numbers; the stack is a sequence whose LAST element   *)
(* is the top (Vec push/pop).  usize is scaled down to UsizeBits bits, the *)
(* 32-byte memory alignment is kept.                                       *)
(***************************************************************************)
EXTENDS Integers, Sequences, FiniteSets, TLC

\* ------------------------------------------------------------------ bounds
\* Width of usize in the model (the platform's is 64).
UsizeBits == 6
\* Longest return data a child frame hands back.
MaxRet == 2
\* Largest step budget the driver passes to run().
MaxRun == 3
\* CONFIG.stack_limit scaled down (the program's is 1024).
StackLimit == 8

USIZE_MAX == 2^UsizeBits - 1
\* A word that does not fit usize.
BIG == USIZE_MAX + 1
\* CONFIG.memory_limit is usize::max_value().
MemoryLimit == USIZE_MAX
\* u64::MAX, at the scale of usize (a 64-bit target).
U64_MAX == USIZE_MAX
\* Memory grows in steps of 32 bytes.
WORD_ALIGN == 32

Max(a, b) == IF a >= b THEN a ELSE b
Min(a, b) == IF a <= b THEN a ELSE b

\* The({e(x) : x \in {v}}) is  LET x == v IN e(x)  with v evaluated once.
The(S) == CHOOSE x \in S : TRUE

\* ----------------------------------------------------------- exit reasons
\* ExitReason as <<kind, code>>.
Stopped          == <<"Succeed", "Stopped">>
Returned         == <<"Succeed", "Returned">>
Reverted         == <<"Revert", "Reverted">>
OutOfGas         == <<"Error", "OutOfGas">>
StackUnderflow   == <<"Error", "StackUnderflow">>
StackOverflow    == <<"Error", "StackOverflow">>
InvalidRange     == <<"Error", "InvalidRange">>
OutOfOffset      == <<"Error", "OutOfOffset">>
NotSupported     == <<"Fatal", "NotSupported">>
CallErrorAsFatal == <<"Fatal", "CallErrorAsFatal">>
StepLimitReached == <<"StepLimitReached", "">>
\* status = Ok(()) and machine position = Ok(_), in the same shape.
Running          == <<"Ok", "">>

\* The reasons a child frame can end with (StepLimitReached is unreachable
\* in the merge functions).
ChildReasons == {Returned, Reverted, OutOfGas, CallErrorAsFatal}

\* Return data of a child: the prefixes of AA BB CC.
ReturnDatas == {SubSeq(<<170, 187, 204>>, 1, n) : n \in 0..MaxRet}

\* ----------------------------------------------------------------- memory
\* Memory { data, effective_len, limit }: limit is MemoryLimit.
EmptyMemory == [data |-> <<>>, elen |-> 0]

\* Memory::resize_end: round up to the alignment, checked.
ResizeEnd(m, end) ==
    LET rounded == ((end + WORD_ALIGN - 1) \div WORD_ALIGN) * WORD_ALIGN
    IN  IF rounded > USIZE_MAX
        THEN [ok |-> FALSE, err |-> InvalidRange, mem |-> m]
        ELSE [ok |-> TRUE, err |-> Running,
              mem |-> [m EXCEPT !.elen = Max(m.elen, rounded)]]

\* Memory::resize_offset(offset, len): cover offset..offset+len.
ResizeOffset(m, offset, len) ==
    IF offset + len > USIZE_MAX
    THEN [ok |-> FALSE, err |-> InvalidRange, mem |-> m]
    ELSE ResizeEnd(m, offset + len)

\* The byte at a (0-based) address; unwritten memory reads as zero.
ByteAt(m, i) == IF i + 1 <= Len(m.data) THEN m.data[i + 1] ELSE 0

\* Memory::get(offset, size): a zero-padded read.
MemGet(m, offset, size) == [i \in 1..size |-> ByteAt(m, offset + i - 1)]

\* Memory::set(offset, value, Some(target_size)).
MemSet(m, offset, value, target_size) ==
    IF offset + target_size > MemoryLimit
    THEN [ok |-> FALSE, err |-> NotSupported, mem |-> m]
    ELSE LET n == Max(Len(m.data), offset + target_size)
             d == [i \in 1..n |->
                     IF i > offset /\ i <= offset + target_size
                     THEN IF i - offset <= Len(value) THEN value[i - offset] ELSE 0
                     ELSE ByteAt(m, i - 1)]
         IN  [ok |-> TRUE, err |-> Running, mem |-> [m EXCEPT !.data = d]]

\* Memory::copy_large(memory_offset, data_offset, len, data).
CopyLarge(m, memory_offset, data_offset, len, data) ==
    LET end == data_offset + len
        src == IF end > USIZE_MAX \/ data_offset > Len(data)
               THEN <<>>
               ELSE SubSeq(data, data_offset + 1, Min(end, Len(data)))
    IN  MemSet(m, memory_offset, src, len)

\* ------------------------------------------------------------------ stack
\* Stack::pop, n times: the words in pop order.  On underflow the words
\* popped before the failure stay popped.
Pops(s, n) ==
    IF Len(s) >= n
    THEN [ok |-> TRUE, vals |-> [i \in 1..n |-> s[Len(s) + 1 - i]],
          stack |-> SubSeq(s, 1, Len(s) - n)]
    ELSE [ok |-> FALSE, vals |-> <<>>, stack |-> <<>>]

\* Stack::push: fails with StackOverflow at the limit, stack unchanged.
CanPush(s) == Len(s) + 1 <= StackLimit

\* as_usize_or_fail!
FitsUsize(w) == w <= USIZE_MAX

\* ---------------------------------------------------------------- runtime
\* struct Runtime { machine, status, return_data_buffer, context } with the
\* machine's stack, memory and position inlined:
\*   stack, memory        the machine's stack and memory
\*   pc, mexit            machine position: Ok(pc) while mexit = Running,
\*                        Err(mexit) after Machine::exit
\*   status               Running or the terminal ExitReason
\*   return_data_buffer   the last child's return data
\*   context              the frame's Context {address, caller, apparent_value}
\*   events               what the current step()/run()/resume has emitted so
\*                        far, in order: the trace events (event!) and the
\*                        handler operations invoked
MkRuntime(stack, memory, pc, mexit, status, rdb, context, events) ==
    [stack |-> stack, memory |-> memory, pc |-> pc, mexit |-> mexit,
     status |-> status, return_data_buffer |-> rdb, context |-> context,
     events |-> events]

\* event!(..) / a handler operation: one more entry of the record.
Emit(rt, e) == [rt EXCEPT !.events = Append(@, e)]

\* context.rs: struct Context; an H160 is two bytes here.
Context(address, caller, apparent_value) ==
    [address |-> address, caller |-> caller, apparent_value |-> apparent_value]
ParentContext == Context(<<0, 11>>, <<0, 12>>, 3)

\* eval::Control: Continue, Exit(reason), CallInterrupt, CreateInterrupt,
\* paired with the runtime the function leaves behind.
Control(ctl, reason, rt) == [ctl |-> ctl, reason |-> reason, rt |-> rt]
Continue(rt) == Control("Continue", Running, rt)
Exit(reason, rt) == Control("Exit", reason, rt)

\* push!(runtime, w); the continuation is the rest of the function.
PushThen(rt, w, ctl, reason) ==
    IF CanPush(rt.stack)
    THEN Control(ctl, reason, [rt EXCEPT !.stack = Append(@, w)])
    ELSE Exit(StackOverflow, rt)

\* A byte string read as a big-endian number.
RECURSIVE BeValue(_)
BeValue(bytes) ==
    IF bytes = <<>> THEN 0
    ELSE 256 * BeValue(SubSeq(bytes, 1, Len(bytes) - 1)) + bytes[Len(bytes)]

\* address.map(|a| a.into()).unwrap_or_default(): an H160 is its byte
\* string (two bytes here, twenty in the program), H256::from(H160) pads it
\* with zero bytes on the left, and the stack word is that H256 read
\* big-endian.  Option<H160> is <<>> (None) or <<bytes>>.
CreateAddressWord(address) ==
    IF address = <<>> THEN 0 ELSE BeValue(<<0, 0>> \o address[1])

\* --------------------------------------------------- save_created_address
\* The return_data parameter and its assignment to
\* runtime.return_data_buffer are commented out (system.rs 394, 397).
save_created_address_AddressOnRevert(rt, reason, address) ==
    CASE reason[1] \in {"Succeed", "Revert"} ->
           PushThen(rt, CreateAddressWord(address), "Continue", Running)
      [] reason[1] = "Error"   -> PushThen(rt, 0, "Continue", Running)
      [] reason[1] = "Fatal"   -> PushThen(rt, 0, "Exit", reason)

save_created_address_FatalContinues(rt, reason, address) ==
    CASE reason[1] = "Succeed" ->
           PushThen(rt, CreateAddressWord(address), "Continue", Running)
      [] OTHER -> PushThen(rt, 0, "Continue", Running)

save_created_address(rt, reason, address) ==
    CASE reason[1] = "Succeed" ->
           PushThen(rt, CreateAddressWord(address), "Continue", Running)
      [] reason[1] = "Revert"  -> PushThen(rt, 0, "Continue", Running)
      [] reason[1] = "Error"   -> PushThen(rt, 0, "Continue", Running)
      [] reason[1] = "Fatal"   -> PushThen(rt, 0, "Exit", reason)

\* ------------------------------------------------------ save_return_value
\* The merge proper (system.rs 437-483), once out_offset and out_len have
\* been popped, converted and the memory resized: rt is the runtime with
\* return_data_buffer already assigned.
MergeByReason_NoPushOnError(rt, reason, out_offset, target_len) ==
    The({ CASE reason[1] = "Succeed" ->
                 IF copy.ok
                 THEN PushThen([rt EXCEPT !.memory = copy.mem], 1, "Continue", Running)
                 ELSE PushThen(rt, 0, "Continue", Running)
            [] reason[1] = "Revert" ->
                 IF CanPush(rt.stack)
                 THEN Continue([rt EXCEPT !.stack = Append(@, 0),
                                          !.memory = copy.mem])
                 ELSE Exit(StackOverflow, rt)
            [] reason[1] = "Error" -> Continue(rt)
            [] reason[1] = "Fatal" -> PushThen(rt, 0, "Exit", reason)
        : copy \in {CopyLarge(rt.memory, out_offset, 0, target_len,
                              rt.return_data_buffer)} })

MergeByReason(rt, reason, out_offset, target_len) ==
    The({ CASE reason[1] = "Succeed" ->
                 IF copy.ok
                 THEN PushThen([rt EXCEPT !.memory = copy.mem], 1, "Continue", Running)
                 ELSE PushThen(rt, 0, "Continue", Running)
            [] reason[1] = "Revert" ->
                 IF CanPush(rt.stack)
                 THEN Continue([rt EXCEPT !.stack = Append(@, 0),
                                          !.memory = copy.mem])
                 ELSE Exit(StackOverflow, rt)
            [] reason[1] = "Error" -> PushThen(rt, 0, "Continue", Running)
            [] reason[1] = "Fatal" -> PushThen(rt, 0, "Exit", reason)
        : copy \in {CopyLarge(rt.memory, out_offset, 0, target_len,
                              rt.return_data_buffer)} })

MergeReturnValue_WholeWindow(rt, reason, return_data, out_offset, out_len) ==
    MergeByReason([rt EXCEPT !.return_data_buffer = return_data], reason,
                  out_offset, out_len)

MergeReturnValue_BufferKept(rt, reason, return_data, out_offset, out_len) ==
    MergeByReason(rt, reason, out_offset, Min(out_len, Len(return_data)))

MergeReturnValue(rt, reason, return_data, out_offset, out_len) ==
    MergeByReason([rt EXCEPT !.return_data_buffer = return_data], reason,
                  out_offset, Min(out_len, Len(return_data)))

\* save_return_value once (out_offset, out_len) = (p.vals[1], p.vals[2]) are
\* popped and popped is the runtime without them.
SaveAfterPop(popped, p, reason, return_data) ==
    IF ~p.ok THEN Exit(StackUnderflow, popped)
    ELSE IF ~FitsUsize(p.vals[1]) \/ ~FitsUsize(p.vals[2])
    THEN Exit(NotSupported, popped)
    ELSE The({ IF ~rs.ok THEN Exit(rs.err, popped)
               ELSE MergeReturnValue([popped EXCEPT !.memory = rs.mem],
                                     reason, return_data, p.vals[1], p.vals[2])
             : rs \in {ResizeOffset(popped.memory, p.vals[1], p.vals[2])} })

save_return_value(rt, reason, return_data) ==
    The({ SaveAfterPop([rt EXCEPT !.stack = p.stack], p, reason, return_data)
        : p \in {Pops(rt.stack, 2)} })

\* ------------------------------------------------------ handler responses
\* What handler.call / handler.create answer: Trap(interrupt), or
\* Exit(reason, return_data) / Exit(reason, address, return_data).
CreatedAddresses == {<<>>, << <<10, 188>> >>}
TrapResp == [tag |-> "Trap", reason |-> Running, data |-> <<>>, address |-> <<>>]
ExitResps == [tag : {"Exit"}, reason : ChildReasons, data : ReturnDatas,
              address : CreatedAddresses]
Resps == {TrapResp} \cup ExitResps

\* ------------------------------------------------------------------- call
CallSchemes == {"Call", "CallCode", "DelegateCall", "StaticCall"}

\* Number of words call() pops itself: gas, to, (value), in_offset, in_len.
CallPops(scheme) == IF scheme \in {"Call", "CallCode"} THEN 5 ELSE 4

\* H256 -> H160 (to.into()): the low bytes of the word.
H160Of(w) == <<(w \div 256) % 256, w % 256>>

\* The gas argument (system.rs 313-317): None above u64::MAX, else
\* Some(gas.as_u64()).
GasArg_Truncated(gas) == <<gas % (U64_MAX + 1)>>

GasArg(gas) == IF gas > U64_MAX THEN <<>> ELSE <<gas % (U64_MAX + 1)>>

\* The value of the call (system.rs 319-327).
CallValue(scheme, p) == IF scheme \in {"Call", "CallCode"} THEN p.vals[3] ELSE 0

\* The child Context (system.rs 344-360).
CallContext_DelegateCaller(scheme, parent, to, value) ==
    CASE scheme \in {"Call", "StaticCall"} -> Context(H160Of(to), parent.address, value)
      [] OTHER -> Context(parent.address, parent.address, value)

CallContext(scheme, parent, to, value) ==
    CASE scheme \in {"Call", "StaticCall"} -> Context(H160Of(to), parent.address, value)
      [] scheme = "CallCode" -> Context(parent.address, parent.address, value)
      [] scheme = "DelegateCall" ->
           Context(parent.address, parent.caller, parent.apparent_value)

\* Option<Transfer> (system.rs 362-376).
Transfer(source, target, value) ==
    [source |-> source, target |-> target, value |-> value]
CallTransfer_Always(scheme, parent, to, value) ==
    IF scheme = "CallCode"
    THEN <<Transfer(parent.address, parent.address, value)>>
    ELSE <<Transfer(parent.address, H160Of(to), value)>>

CallTransfer(scheme, parent, to, value) ==
    CASE scheme = "Call" -> <<Transfer(parent.address, H160Of(to), value)>>
      [] scheme = "CallCode" -> <<Transfer(parent.address, parent.address, value)>>
      [] OTHER -> <<>>

\* The input bytes (system.rs 338-342).
CallInput(m, in_offset, in_len) ==
    IF in_len = 0 THEN <<>> ELSE MemGet(m, in_offset, in_len)

\* handler.call(to, transfer, input, gas, is_static, context) (system.rs 378).
HandlerCall(scheme, rt, p, n) ==
    [ev |-> "call", to |-> H160Of(p.vals[2]),
     transfer |-> CallTransfer(scheme, rt.context, p.vals[2], CallValue(scheme, p)),
     input |-> CallInput(rt.memory, p.vals[n - 1], p.vals[n]),
     gas |-> GasArg(p.vals[1]),
     is_static |-> (scheme = "StaticCall"),
     context |-> CallContext(scheme, rt.context, p.vals[2], CallValue(scheme, p))]

\* The runtime entering the child's Context when it builds it.
CallAfterPop_EnterChild(popped, p, scheme) ==
    IF ~p.ok THEN Exit(StackUnderflow, popped)
    ELSE IF ~FitsUsize(p.vals[CallPops(scheme) - 1])
               \/ ~FitsUsize(p.vals[CallPops(scheme)])
    THEN Exit(NotSupported, popped)
    ELSE The({ IF ~rs.ok THEN Exit(rs.err, popped)
               ELSE The({ Control("Ready", Running,
                                  [Emit(r, HandlerCall(scheme, r, p, CallPops(scheme)))
                                      EXCEPT !.context =
                                          CallContext(scheme, r.context, p.vals[2],
                                                      CallValue(scheme, p))])
                        : r \in {[popped EXCEPT !.memory = rs.mem]} })
             : rs \in {ResizeOffset(popped.memory, p.vals[CallPops(scheme) - 1],
                                    p.vals[CallPops(scheme)])} })

\* call() up to the handler invocation (system.rs 309-378): Exit, or
\* "Ready" with the runtime the handler's answer will be merged into.
\* p holds the popped words: gas, to, (value), in_offset, in_len.
CallAfterPop(popped, p, scheme) ==
    IF ~p.ok THEN Exit(StackUnderflow, popped)
    ELSE IF ~FitsUsize(p.vals[CallPops(scheme) - 1])
               \/ ~FitsUsize(p.vals[CallPops(scheme)])
    THEN Exit(NotSupported, popped)
    ELSE The({ IF ~rs.ok THEN Exit(rs.err, popped)
               ELSE The({ Control("Ready", Running,
                                  Emit(r, HandlerCall(scheme, r, p, CallPops(scheme))))
                        : r \in {[popped EXCEPT !.memory = rs.mem]} })
             : rs \in {ResizeOffset(popped.memory, p.vals[CallPops(scheme) - 1],
                                    p.vals[CallPops(scheme)])} })

call_args_BufferKept(rt, scheme) ==
    The({ CallAfterPop([rt EXCEPT !.stack = p.stack], p, scheme)
        : p \in {Pops(rt.stack, CallPops(scheme))} })

call_args(rt, scheme) ==
    The({ CallAfterPop([rt EXCEPT !.return_data_buffer = <<>>, !.stack = p.stack],
                       p, scheme)
        : p \in {Pops(rt.stack, CallPops(scheme))} })

\* The push the source has commented out at the interrupt (system.rs 384).
call_PushOnTrap(rt, scheme, resp) ==
    The({ IF a.ctl = "Exit" THEN a
          ELSE IF resp.tag = "Exit"
          THEN save_return_value(a.rt, resp.reason, resp.data)
          ELSE Control("CallInterrupt", Running,
                       [a.rt EXCEPT !.stack = Append(@, 0)])
        : a \in {call_args(rt, scheme)} })

call_InterruptOnExit(rt, scheme, resp) ==
    The({ IF a.ctl = "Exit" THEN a
          ELSE IF resp.tag = "Exit" /\ resp.reason[1] # "Succeed"
          THEN save_return_value(a.rt, resp.reason, resp.data)
          ELSE Control("CallInterrupt", Running, a.rt)
        : a \in {call_args(rt, scheme)} })

call(rt, scheme, resp) ==
    The({ IF a.ctl = "Exit" THEN a
          ELSE IF resp.tag = "Exit"
          THEN save_return_value(a.rt, resp.reason, resp.data)
          ELSE Control("CallInterrupt", Running, a.rt)
        : a \in {call_args(rt, scheme)} })

\* ----------------------------------------------------------------- create
\* The init code (system.rs 271-275).
CreateCode(m, code_offset, len) ==
    IF len = 0 THEN <<>> ELSE MemGet(m, code_offset, len)

\* handler.keccak256_h256(code), its answer, and
\* handler.create(address, scheme, value, code, None) (system.rs 270-292).
Keccak(data) == [ev |-> "keccak256_h256", data |-> data]
CodeHash(data) == <<"keccak256", data>>
Legacy(caller) == [scheme |-> "Legacy", caller |-> caller]
Create2(caller, code_hash, salt) ==
    [scheme |-> "Create2", caller |-> caller, code_hash |-> code_hash, salt |-> salt]
HandlerCreate(address, scheme, value, init_code) ==
    [ev |-> "create", address |-> address, scheme |-> scheme, value |-> value,
     init_code |-> init_code]

\* CREATE2 pops the salt after the memory resize; value is the popped value
\* and init_code the bytes read from memory.
CreatePopSalt(resized, is_create2, value, init_code) ==
    IF ~is_create2
    THEN Control("Ready", Running,
                 Emit(resized, HandlerCreate(resized.context.address,
                                             Legacy(resized.context.address),
                                             value, init_code)))
    ELSE IF Len(resized.stack) < 1 THEN Exit(StackUnderflow, resized)
    ELSE Control("Ready", Running,
                 Emit(Emit([resized EXCEPT !.stack = SubSeq(@, 1, Len(@) - 1)],
                           Keccak(init_code)),
                      HandlerCreate(resized.context.address,
                                    Create2(resized.context.address, CodeHash(init_code),
                                            resized.stack[Len(resized.stack)]),
                                    value, init_code)))

\* handler.create invoked before code_offset and len are converted.
CreateAfterPop_HandlerFirst(popped, p, is_create2) ==
    IF ~p.ok THEN Exit(StackUnderflow, popped)
    ELSE IF ~FitsUsize(p.vals[2]) \/ ~FitsUsize(p.vals[3])
    THEN Exit(NotSupported,
              Emit(popped, HandlerCreate(popped.context.address,
                                         Legacy(popped.context.address),
                                         p.vals[1], <<>>)))
    ELSE The({ IF ~rs.ok THEN Exit(rs.err, popped)
               ELSE CreatePopSalt([popped EXCEPT !.memory = rs.mem], is_create2,
                                  p.vals[1],
                                  CreateCode(rs.mem, p.vals[2], p.vals[3]))
             : rs \in {ResizeOffset(popped.memory, p.vals[2], p.vals[3])} })

\* p holds the popped words: value, code_offset, len.
CreateAfterPop(popped, p, is_create2) ==
    IF ~p.ok THEN Exit(StackUnderflow, popped)
    ELSE IF ~FitsUsize(p.vals[2]) \/ ~FitsUsize(p.vals[3])
    THEN Exit(NotSupported, popped)
    ELSE The({ IF ~rs.ok THEN Exit(rs.err, popped)
               ELSE CreatePopSalt([popped EXCEPT !.memory = rs.mem], is_create2,
                                  p.vals[1],
                                  CreateCode(rs.mem, p.vals[2], p.vals[3]))
             : rs \in {ResizeOffset(popped.memory, p.vals[2], p.vals[3])} })

\* create() up to the handler invocation (system.rs 264-290).
create_args(rt, is_create2) ==
    The({ CreateAfterPop([rt EXCEPT !.return_data_buffer = <<>>, !.stack = p.stack],
                         p, is_create2)
        : p \in {Pops(rt.stack, 3)} })

\* The push the source has commented out at the interrupt (system.rs 298).
create_PushOnTrap(rt, is_create2, resp) ==
    The({ IF a.ctl = "Exit" THEN a
          ELSE IF resp.tag = "Exit"
          THEN save_created_address(a.rt, resp.reason, resp.address)
          ELSE PushThen(a.rt, 0, "CreateInterrupt", Running)
        : a \in {create_args(rt, is_create2)} })

create(rt, is_create2, resp) ==
    The({ IF a.ctl = "Exit" THEN a
          ELSE IF resp.tag = "Exit"
          THEN save_created_address(a.rt, resp.reason, resp.address)
          ELSE Control("CreateInterrupt", Running, a.rt)
        : a \in {create_args(rt, is_create2)} })

\* ------------------------------------------------- returndatasize / copy
returndatasize_Zero(rt) == PushThen(rt, 0, "Continue", Running)

returndatasize_Unchecked(rt) ==
    Continue([rt EXCEPT !.stack = Append(@, Len(rt.return_data_buffer))])

returndatasize(rt) ==
    PushThen(rt, Len(rt.return_data_buffer), "Continue", Running)

\* p holds the popped words: memory_offset, data_offset, len.
\* Without the bounds check, copy_large pads with zeros.
ReturnDataCopyAfterPop_NoBounds(popped, p) ==
    IF ~p.ok THEN Exit(StackUnderflow, popped)
    ELSE IF ~FitsUsize(p.vals[1]) \/ ~FitsUsize(p.vals[2]) \/ ~FitsUsize(p.vals[3])
    THEN Exit(NotSupported, popped)
    ELSE The({ IF ~rs.ok THEN Exit(rs.err, popped)
               ELSE The({ IF copy.ok THEN Continue([popped EXCEPT !.memory = copy.mem])
                          ELSE Exit(copy.err, [popped EXCEPT !.memory = rs.mem])
                        : copy \in {CopyLarge(rs.mem, p.vals[1], p.vals[2], p.vals[3],
                                              popped.return_data_buffer)} })
             : rs \in {ResizeOffset(popped.memory, p.vals[1], p.vals[3])} })

\* The memory discarded when the copy is out of bounds.
ReturnDataCopyAfterPop_ShrinkOnFail(popped, p) ==
    IF ~p.ok THEN Exit(StackUnderflow, popped)
    ELSE IF ~FitsUsize(p.vals[1]) \/ ~FitsUsize(p.vals[2]) \/ ~FitsUsize(p.vals[3])
    THEN Exit(NotSupported, popped)
    ELSE The({ IF ~rs.ok THEN Exit(rs.err, popped)
               ELSE IF p.vals[2] + p.vals[3] > USIZE_MAX
                       \/ p.vals[2] + p.vals[3] > Len(popped.return_data_buffer)
               THEN Exit(OutOfOffset, [popped EXCEPT !.memory = EmptyMemory])
               ELSE The({ IF copy.ok THEN Continue([popped EXCEPT !.memory = copy.mem])
                          ELSE Exit(copy.err, [popped EXCEPT !.memory = rs.mem])
                        : copy \in {CopyLarge(rs.mem, p.vals[1], p.vals[2], p.vals[3],
                                              popped.return_data_buffer)} })
             : rs \in {ResizeOffset(popped.memory, p.vals[1], p.vals[3])} })

ReturnDataCopyAfterPop(popped, p) ==
    IF ~p.ok THEN Exit(StackUnderflow, popped)
    ELSE IF ~FitsUsize(p.vals[1]) \/ ~FitsUsize(p.vals[2]) \/ ~FitsUsize(p.vals[3])
    THEN Exit(NotSupported, popped)
    ELSE The({ IF ~rs.ok THEN Exit(rs.err, popped)
               ELSE IF p.vals[2] + p.vals[3] > USIZE_MAX
                       \/ p.vals[2] + p.vals[3] > Len(popped.return_data_buffer)
               THEN Exit(OutOfOffset, [popped EXCEPT !.memory = rs.mem])
               ELSE The({ IF copy.ok THEN Continue([popped EXCEPT !.memory = copy.mem])
                          ELSE Exit(copy.err, [popped EXCEPT !.memory = rs.mem])
                        : copy \in {CopyLarge(rs.mem, p.vals[1], p.vals[2], p.vals[3],
                                              popped.return_data_buffer)} })
             : rs \in {ResizeOffset(popped.memory, p.vals[1], p.vals[3])} })

returndatacopy(rt) ==
    The({ ReturnDataCopyAfterPop([rt EXCEPT !.stack = p.stack], p)
        : p \in {Pops(rt.stack, 3)} })

\* ----------------------------------------------------------------- sstore
\* What handler.set_storage answers: Ok(()) or Err(e).
StorageError == <<"Error", "Other">>
StorageAnswers == {Running, StorageError}

\* tracing.rs: Event::SStore, and the handler operation it precedes.
SStoreEvent(address, index, value) ==
    [ev |-> "SStore", address |-> address, index |-> index, value |-> value]
SetStorage(address, index, value) ==
    [ev |-> "set_storage", address |-> address, index |-> index, value |-> value]

\* p holds the popped words: index, value.
SStoreAfterPop(popped, p, answer) ==
    IF ~p.ok THEN Exit(StackUnderflow, popped)
    ELSE The({ IF answer = Running THEN Continue(stored) ELSE Exit(answer, stored)
             : stored \in {Emit(Emit(popped,
                                    SStoreEvent(popped.context.address,
                                                p.vals[1], p.vals[2])),
                                SetStorage(popped.context.address,
                                           p.vals[1], p.vals[2]))} })

\* The event emitted after the mutation, and only if it succeeded.
sstore_EventAfter(rt, answer) ==
    The({ IF ~p.ok THEN Exit(StackUnderflow, [rt EXCEPT !.stack = p.stack])
          ELSE IF answer # Running
          THEN Exit(answer, Emit([rt EXCEPT !.stack = p.stack],
                                 SetStorage(rt.context.address, p.vals[1], p.vals[2])))
          ELSE Continue(Emit(Emit([rt EXCEPT !.stack = p.stack],
                                  SetStorage(rt.context.address, p.vals[1], p.vals[2])),
                             SStoreEvent(rt.context.address, p.vals[1], p.vals[2])))
        : p \in {Pops(rt.stack, 2)} })

sstore(rt, answer) ==
    The({ SStoreAfterPop([rt EXCEPT !.stack = p.stack], p, answer)
        : p \in {Pops(rt.stack, 2)} })

\* ------------------------------------------------------------------ sload
\* What handler.storage(address, index) answers: the handler's storage map.
StorageValue(address, index) == (index + 4) % (USIZE_MAX + 1)

\* handler.storage, and tracing.rs: Event::SLoad.
HandlerStorage(address, index) ==
    [ev |-> "storage", address |-> address, index |-> index]
SLoadEvent(address, index, value) ==
    [ev |-> "SLoad", address |-> address, index |-> index, value |-> value]

\* sload (system.rs 184-198): pop index, read, push the value, then the event.
sload(rt) ==
    IF Len(rt.stack) < 1 THEN Exit(StackUnderflow, rt)
    ELSE The({ The({ IF pushed.ctl = "Exit" THEN pushed
                     ELSE Continue(Emit(pushed.rt,
                                        SLoadEvent(rt.context.address, index,
                                                   StorageValue(rt.context.address, index))))
                   : pushed \in {PushThen(Emit([rt EXCEPT !.stack = SubSeq(@, 1, Len(@) - 1)],
                                               HandlerStorage(rt.context.address, index)),
                                          StorageValue(rt.context.address, index),
                                          "Continue", Running)} })
             : index \in {rt.stack[Len(rt.stack)]} })

\* -------------------------------------------------------------------- log
\* What handler.log answers: Ok(()) or Err(e).
LogError == <<"Error", "OutOfFund">>
LogAnswers == {Running, LogError}

\* handler.log(address, topics, data) (system.rs 242).
HandlerLog(address, topics, data) ==
    [ev |-> "log", address |-> address, topics |-> topics, data |-> data]

\* The data of the log (system.rs 228-232).
LogData(m, offset, len) == IF len = 0 THEN <<>> ELSE MemGet(m, offset, len)

\* The loop popping the n topics (system.rs 234-240) and the handler
\* invocation; resized is the runtime after the memory resize, t the pops.
LogTopics_Reversed(resized, t, data, answer) ==
    IF ~t.ok THEN Exit(StackUnderflow, [resized EXCEPT !.stack = t.stack])
    ELSE The({ IF answer = Running THEN Continue(logged) ELSE Exit(answer, logged)
             : logged \in {Emit([resized EXCEPT !.stack = t.stack],
                                HandlerLog(resized.context.address,
                                           [i \in 1..Len(t.vals) |->
                                               t.vals[Len(t.vals) + 1 - i]],
                                           data))} })

LogTopics(resized, t, data, answer) ==
    IF ~t.ok THEN Exit(StackUnderflow, [resized EXCEPT !.stack = t.stack])
    ELSE The({ IF answer = Running THEN Continue(logged) ELSE Exit(answer, logged)
             : logged \in {Emit([resized EXCEPT !.stack = t.stack],
                                HandlerLog(resized.context.address, t.vals, data))} })

\* p holds the popped words: offset, len.
LogAfterPop(popped, p, n, answer) ==
    IF ~p.ok THEN Exit(StackUnderflow, popped)
    ELSE IF ~FitsUsize(p.vals[1]) \/ ~FitsUsize(p.vals[2])
    THEN Exit(NotSupported, popped)
    ELSE The({ IF ~rs.ok THEN Exit(rs.err, popped)
               ELSE LogTopics([popped EXCEPT !.memory = rs.mem],
                              Pops(popped.stack, n),
                              LogData(rs.mem, p.vals[1], p.vals[2]), answer)
             : rs \in {ResizeOffset(popped.memory, p.vals[1], p.vals[2])} })

log(rt, n, answer) ==
    The({ LogAfterPop([rt EXCEPT !.stack = p.stack], p, n, answer)
        : p \in {Pops(rt.stack, 2)} })

\* ---------------------------------------------------------------- suicide
\* What handler.mark_delete answers: Ok(()) or Err(e).
DeleteError == <<"Error", "DesignatedInvalid">>
DeleteAnswers == {Running, DeleteError}
Suicided == <<"Succeed", "Suicided">>

\* handler.mark_delete(address, target) (system.rs 251).
MarkDelete(address, target) ==
    [ev |-> "mark_delete", address |-> address, target |-> target]

\* A failure of mark_delete ignored.
suicide_IgnoreError(rt, answer) ==
    IF Len(rt.stack) < 1 THEN Exit(StackUnderflow, rt)
    ELSE Exit(Suicided,
              Emit([rt EXCEPT !.stack = SubSeq(@, 1, Len(@) - 1)],
                   MarkDelete(rt.context.address, H160Of(rt.stack[Len(rt.stack)]))))

suicide(rt, answer) ==
    IF Len(rt.stack) < 1 THEN Exit(StackUnderflow, rt)
    ELSE Exit(IF answer = Running THEN Suicided ELSE answer,
              Emit([rt EXCEPT !.stack = SubSeq(@, 1, Len(@) - 1)],
                   MarkDelete(rt.context.address, H160Of(rt.stack[Len(rt.stack)]))))

\* ---------------------------------------------------------------- machine
VARIABLES
    code,                \* the frame's bytecode, a sequence of opcodes
    stack,               \* machine.stack
    memory,              \* machine.memory
    pc,                  \* machine.position, when Ok
    mexit,               \* machine.position, when Err (Running otherwise)
    status,              \* runtime.status
    return_data_buffer,  \* runtime.return_data_buffer
    pending,             \* the Resolve handle the driver holds: "none", "call", "create"
    capture,             \* what the last step()/run()/resume returned
    dispatch,            \* the last CALL*/CREATE* dispatch or resume, for the record
    context,             \* runtime.context
    events,              \* what the last operation emitted and invoked, in order
    last                 \* the last operation: "new", "step", "run", "resume",
                         \* "set_return_data"

vars == <<code, stack, memory, pc, mexit, status, return_data_buffer,
          pending, capture, dispatch, context, events, last>>

\* The runtime of the current state, as an operation finds it.
RT == MkRuntime(stack, memory, pc, mexit, status, return_data_buffer, context, <<>>)

Op(name) == [op |-> name, arg |-> 0]
Push(w) == [op |-> "PUSH", arg |-> w]

CallOps == {"CALL", "CALLCODE", "DELEGATECALL", "STATICCALL"}
CreateOps == {"CREATE", "CREATE2"}
\* The opcodes Machine::step hands to the runtime as Trap(opcode).
LogOps == {"LOG0", "LOG1", "LOG2", "LOG3", "LOG4"}
SystemOps ==
    CallOps \cup CreateOps \cup LogOps
    \cup {"RETURNDATASIZE", "RETURNDATACOPY", "SSTORE", "SLOAD", "SUICIDE"}

\* The n of LOGn.
LogN(name) ==
    CASE name = "LOG0" -> 0 [] name = "LOG1" -> 1 [] name = "LOG2" -> 2
      [] name = "LOG3" -> 3 [] name = "LOG4" -> 4

SchemeOf(name) ==
    CASE name = "CALL" -> "Call"
      [] name = "CALLCODE" -> "CallCode"
      [] name = "DELEGATECALL" -> "DelegateCall"
      [] name = "STATICCALL" -> "StaticCall"

\* Machine::exit.
MachineExit(rt, reason) == [rt EXCEPT !.mexit = reason]

\* Machine::inspect: the next opcode, if the machine is at one.
HasNext(rt) == rt.mexit = Running /\ rt.pc <= Len(code)

MachineResult(res, reason, opcode, rt) ==
    [res |-> res, reason |-> reason, opcode |-> opcode, rt |-> rt]

\* MSTORE8 of the lower machine: pop offset and value, write one byte.
\* p holds the popped words: offset, value.
MStore8AfterPop(rt, p) ==
    IF ~p.ok THEN [ok |-> FALSE, err |-> StackUnderflow, rt |-> rt]
    ELSE IF ~FitsUsize(p.vals[1]) THEN [ok |-> FALSE, err |-> NotSupported, rt |-> rt]
    ELSE The({ IF ~rs.ok THEN [ok |-> FALSE, err |-> rs.err, rt |-> rt]
               ELSE The({ IF ~wr.ok THEN [ok |-> FALSE, err |-> wr.err, rt |-> rt]
                          ELSE [ok |-> TRUE, err |-> Running,
                                rt |-> [rt EXCEPT !.stack = p.stack,
                                                  !.memory = wr.mem, !.pc = @ + 1]]
                        : wr \in {MemSet(rs.mem, p.vals[1], <<p.vals[2] % 256>>, 1)} })
             : rs \in {ResizeOffset(rt.memory, p.vals[1], 1)} })

MStore8(rt) == The({ MStore8AfterPop(rt, p) : p \in {Pops(rt.stack, 2)} })

\* One opcode of the lower machine.
MachineOpcode(rt, o) ==
    CASE o.op = "PUSH" ->
           IF CanPush(rt.stack)
           THEN MachineResult("Ok", Running, o.op,
                              [rt EXCEPT !.stack = Append(@, o.arg), !.pc = @ + 1])
           ELSE MachineResult("Exit", StackOverflow, o.op, MachineExit(rt, StackOverflow))
      [] o.op = "POP" ->
           IF Len(rt.stack) >= 1
           THEN MachineResult("Ok", Running, o.op,
                              [rt EXCEPT !.stack = SubSeq(@, 1, Len(@) - 1), !.pc = @ + 1])
           ELSE MachineResult("Exit", StackUnderflow, o.op, MachineExit(rt, StackUnderflow))
      [] o.op = "MSTORE8" ->
           The({ IF w.ok THEN MachineResult("Ok", Running, o.op, w.rt)
                 ELSE MachineResult("Exit", w.err, o.op, MachineExit(rt, w.err))
               : w \in {MStore8(rt)} })
      [] o.op = "STOP" -> MachineResult("Exit", Stopped, o.op, MachineExit(rt, Stopped))
      [] o.op \in SystemOps ->
           MachineResult("Trap", Running, o.op, [rt EXCEPT !.pc = @ + 1])

\* Machine::step: Ok(()), Err(Exit(reason)) or Err(Trap(opcode)).
MachineStep(rt) ==
    IF rt.mexit # Running THEN MachineResult("Exit", rt.mexit, "", rt)
    ELSE IF rt.pc > Len(code)
    THEN MachineResult("Exit", Stopped, "", MachineExit(rt, Stopped))
    ELSE MachineOpcode(rt, code[rt.pc])

\* eval::eval: the dispatch table of the system opcodes, with the handler h.
Eval(rt, opcode, h) ==
    CASE opcode \in CallOps -> call(rt, SchemeOf(opcode), h.resp)
      [] opcode = "CREATE" -> create(rt, FALSE, h.resp)
      [] opcode = "CREATE2" -> create(rt, TRUE, h.resp)
      [] opcode = "RETURNDATASIZE" -> returndatasize(rt)
      [] opcode = "RETURNDATACOPY" -> returndatacopy(rt)
      [] opcode = "SSTORE" -> sstore(rt, h.set_storage)
      [] opcode = "SLOAD" -> sload(rt)
      [] opcode \in LogOps -> log(rt, LogN(opcode), h.log)
      [] opcode = "SUICIDE" -> suicide(rt, h.mark_delete)

\* ---------------------------------------------------------------- handler
\* The handler passed to one step()/run(): fuel is the number of opcodes
\* its pre_validate accepts before it answers Err(OutOfGas); resp is its
\* answer to call/create, set_storage, log and mark_delete its answers to
\* these operations.
PreValidateOk(h) == h.fuel > 0
Consume(h) == [h EXCEPT !.fuel = @ - 1]

\* Capture<ExitReason, Resolve>, and Ok(()) of step().
Capture(tag, reason) == [tag |-> tag, reason |-> reason]
CapOk == Capture("Ok", Running)
CapExit(reason) == Capture("Exit", reason)
CapTrapCall == Capture("TrapCall", Running)
CapTrapCreate == Capture("TrapCreate", Running)

\* The record of the last CALL*/CREATE* dispatch or resume:
\*   kind     "none", "call", "create", "save_return_value", "save_created_address"
\*   opcode   the CALL*/CREATE* opcode dispatched (resumed)
\*   pre      the runtime before the opcode (before the resume)
\*   invoked  whether handler.call / handler.create was invoked
\*   entry    the runtime the handler's answer was to be merged into
\*   resp     the handler's answer (the outcome the driver resumed with)
\*   post     the runtime when the dispatch (the resume function) returned
\*   ctl      the Control it returned, with its reason
FreshRuntime ==
    MkRuntime(<<>>, EmptyMemory, 1, Running, Running, <<>>, ParentContext, <<>>)
NoDispatch ==
    [kind |-> "none", opcode |-> "", pre |-> FreshRuntime, invoked |-> FALSE,
     entry |-> FreshRuntime, resp |-> TrapResp, post |-> FreshRuntime,
     ctl |-> "Continue", reason |-> Running]

DispatchRecord(kind, opcode, pre, a, resp, c) ==
    [kind |-> kind, opcode |-> opcode, pre |-> pre, invoked |-> a.ctl = "Ready",
     entry |-> a.rt, resp |-> IF a.ctl = "Ready" THEN resp ELSE TrapResp,
     post |-> c.rt, ctl |-> c.ctl, reason |-> c.reason]

\* What a step leaves for the record: the dispatch it made, if any; c is
\* the Control the dispatch returned.
DispatchOf(opcode, pre, resp, c, old) ==
    IF opcode \in CallOps
    THEN DispatchRecord("call", opcode, pre, call_args(pre, SchemeOf(opcode)), resp, c)
    ELSE IF opcode \in CreateOps
    THEN DispatchRecord("create", opcode, pre, create_args(pre, opcode = "CREATE2"),
                        resp, c)
    ELSE old

\* The tail of step! and of the loop of run(): what is made of the Control
\* the system-opcode dispatch returned (lib.rs 97-115, 202-217).
OnControl_StatusOnly(c) ==
    CASE c.ctl = "Continue" -> [rt |-> c.rt, capture |-> CapOk, control |-> c]
      [] c.ctl = "CallInterrupt" -> [rt |-> c.rt, capture |-> CapTrapCall, control |-> c]
      [] c.ctl = "CreateInterrupt" ->
           [rt |-> c.rt, capture |-> CapTrapCreate, control |-> c]
      [] c.ctl = "Exit" ->
           [rt |-> [c.rt EXCEPT !.status = c.reason],
            capture |-> CapExit(c.reason), control |-> c]

OnControl(c) ==
    CASE c.ctl = "Continue" -> [rt |-> c.rt, capture |-> CapOk, control |-> c]
      [] c.ctl = "CallInterrupt" -> [rt |-> c.rt, capture |-> CapTrapCall, control |-> c]
      [] c.ctl = "CreateInterrupt" ->
           [rt |-> c.rt, capture |-> CapTrapCreate, control |-> c]
      [] c.ctl = "Exit" ->
           [rt |-> [c.rt EXCEPT !.mexit = c.reason, !.status = c.reason],
            capture |-> CapExit(c.reason), control |-> c]

OnTrap(rt, opcode, h) == The({ OnControl(c) : c \in {Eval(rt, opcode, h)} })

\* ------------------------------------------------------------------ step!
\* What step() and run() hand back, with the runtime they leave: the
\* capture, the number of opcodes executed and the dispatch record.
Outcome(rt, cap, steps, disp) ==
    [rt |-> rt, capture |-> cap, steps |-> steps, dispatch |-> disp]

\* tracing.rs: Event::Step and Event::StepResult.
StepEvent(rt) ==
    [ev |-> "Step", opcode |-> code[rt.pc].op, position |-> rt.pc,
     stack |-> rt.stack]
StepResultEvent(m) == [ev |-> "StepResult", result |-> m.res, stack |-> m.rt.stack]

\* lib.rs 50-68: if the machine is at an opcode, the Step event and
\* pre_validate of that opcode.
PreValidate_ErrorIgnored(rt, h) ==
    IF ~HasNext(rt) THEN rt ELSE Emit(rt, StepEvent(rt))

PreValidate(rt, h) ==
    IF ~HasNext(rt) THEN rt
    ELSE IF ~PreValidateOk(h)
    THEN [Emit(rt, StepEvent(rt)) EXCEPT !.mexit = OutOfGas, !.status = OutOfGas]
    ELSE Emit(rt, StepEvent(rt))

\* lib.rs 78-87: machine.step(), and the StepResult event if the Step event
\* was emitted (rt is the runtime machine.step() started from).
TracedStep_Always(rt) ==
    The({ [m EXCEPT !.rt = Emit(@, StepResultEvent(m))] : m \in {MachineStep(rt)} })

TracedStep(rt) ==
    The({ IF HasNext(rt) THEN [m EXCEPT !.rt = Emit(@, StepResultEvent(m))] ELSE m
        : m \in {MachineStep(rt)} })

\* The StepResult event emitted when the opcode is complete, with its final
\* outcome.
StepMachine_ResultAfterDispatch(rt, h, disp) ==
    The({ CASE m.res = "Ok" ->
                 Outcome(IF HasNext(rt) THEN Emit(m.rt, StepResultEvent(m)) ELSE m.rt,
                         CapOk, 1, disp)
            [] m.res = "Exit" ->
                 Outcome([(IF HasNext(rt) THEN Emit(m.rt, StepResultEvent(m)) ELSE m.rt)
                             EXCEPT !.status = m.reason],
                         CapExit(m.reason), 1, disp)
            [] m.res = "Trap" ->
                 The({ Outcome(Emit(t.rt, [ev |-> "StepResult", result |-> t.capture.tag,
                                           stack |-> t.rt.stack]),
                               t.capture, 1,
                               DispatchOf(m.opcode, rt, h.resp, t.control, disp))
                     : t \in {OnTrap(m.rt, m.opcode, h)} })
        : m \in {MachineStep(rt)} })

\* lib.rs 78-117: the machine step and what follows it.
StepMachine(rt, h, disp) ==
    The({ CASE m.res = "Ok" -> Outcome(m.rt, CapOk, 1, disp)
            [] m.res = "Exit" ->
                 Outcome([m.rt EXCEPT !.status = m.reason], CapExit(m.reason), 1, disp)
            [] m.res = "Trap" ->
                 The({ Outcome(t.rt, t.capture, 1,
                               DispatchOf(m.opcode, rt, h.resp, t.control, disp))
                     : t \in {OnTrap(m.rt, m.opcode, h)} })
        : m \in {TracedStep(rt)} })

\* Runtime::step (the step! macro, lib.rs 48-119).
RuntimeStep(rt, h, disp) ==
    The({ IF v.status # Running THEN Outcome(v, CapExit(v.status), 0, disp)
          ELSE StepMachine(v, h, disp)
        : v \in {PreValidate(rt, h)} })

\* ------------------------------------------------------------ Machine::run
\* Machine::run(max_steps, pre_validate) of the lower machine: pure opcodes
\* until the budget is used up (StepLimitReached), the machine exits, or a
\* system opcode traps.  Every opcode executed counts one step.
MachineRunResult(rt, h, steps, res, reason, opcode) ==
    [rt |-> rt, h |-> h, steps |-> steps, res |-> res, reason |-> reason,
     opcode |-> opcode]

RECURSIVE MachineRun(_, _, _, _)
MachineRun(rt, max_steps, h, steps) ==
    IF rt.mexit # Running
    THEN MachineRunResult(rt, h, steps, "Exit", rt.mexit, "")
    ELSE IF steps >= max_steps
    THEN MachineRunResult(rt, h, steps, "Exit", StepLimitReached, "")
    ELSE IF ~HasNext(rt)
    THEN MachineRunResult(MachineExit(rt, Stopped), h, steps, "Exit", Stopped, "")
    ELSE IF ~PreValidateOk(h)
    THEN MachineRunResult(MachineExit(rt, OutOfGas), h, steps, "Exit", OutOfGas, "")
    ELSE The({ IF m.res = "Ok"
               THEN MachineRun(m.rt, max_steps, Consume(h), steps + 1)
               ELSE MachineRunResult(m.rt, Consume(h), steps + 1, m.res, m.reason,
                                     m.opcode)
             : m \in {MachineStep(rt)} })

\* ------------------------------------------------------------ Runtime::run
\* One turn of the while loop of run (lib.rs 186-219) on what machine.run
\* returned; n is the number of steps so far.
RECURSIVE RunLoop(_, _, _, _, _)
\* Without the StepLimitReached arm the generic Exit arm takes the limit
\* for a terminal exit.
RunTurn_LimitIsTerminal(m, max_steps, n, disp) ==
    CASE m.res = "Exit" ->
           Outcome([m.rt EXCEPT !.status = m.reason], CapExit(m.reason), n, disp)
      [] m.res = "Trap" ->
           The({ The({ IF t.capture = CapOk
                       THEN RunLoop(t.rt, max_steps, m.h, n, d)
                       ELSE Outcome(t.rt, t.capture, n, d)
                     : d \in {DispatchOf(m.opcode, [m.rt EXCEPT !.pc = @ - 1],
                                         m.h.resp, t.control, disp)} })
               : t \in {OnTrap(m.rt, m.opcode, m.h)} })

\* The status left running when the machine exits.
RunTurn_ExitKeepsRunning(m, max_steps, n, disp) ==
    CASE m.res = "Exit" -> Outcome(m.rt, CapExit(m.reason), n, disp)
      [] m.res = "Trap" ->
           The({ The({ IF t.capture = CapOk
                       THEN RunLoop(t.rt, max_steps, m.h, n, d)
                       ELSE Outcome(t.rt, t.capture, n, d)
                     : d \in {DispatchOf(m.opcode, [m.rt EXCEPT !.pc = @ - 1],
                                         m.h.resp, t.control, disp)} })
               : t \in {OnTrap(m.rt, m.opcode, m.h)} })

RunTurn(m, max_steps, n, disp) ==
    CASE m.res = "Exit" /\ m.reason = StepLimitReached ->
           Outcome(m.rt, CapExit(StepLimitReached), n, disp)
      [] m.res = "Exit" /\ m.reason # StepLimitReached ->
           Outcome([m.rt EXCEPT !.status = m.reason], CapExit(m.reason), n, disp)
      [] m.res = "Trap" ->
           The({ The({ IF t.capture = CapOk
                       THEN RunLoop(t.rt, max_steps, m.h, n, d)
                       ELSE Outcome(t.rt, t.capture, n, d)
                     : d \in {DispatchOf(m.opcode, [m.rt EXCEPT !.pc = @ - 1],
                                         m.h.resp, t.control, disp)} })
               : t \in {OnTrap(m.rt, m.opcode, m.h)} })

\* The while loop of run (lib.rs 185-222), entered with `steps` counted.
RunLoop(rt, max_steps, h, steps, disp) ==
    IF ~(steps < max_steps)
    THEN Outcome(rt, CapExit(StepLimitReached), steps, disp)
    ELSE The({ RunTurn(m, max_steps, steps + m.steps, disp)
             : m \in {MachineRun(rt, max_steps - steps, h, 0)} })

\* Runtime::run (lib.rs 174-223).
RuntimeRun_NoStatusCheck(rt, max_steps, h, disp) ==
    RunLoop(rt, max_steps, h, 0, disp)

RuntimeRun(rt, max_steps, h, disp) ==
    IF rt.status # Running
    THEN Outcome(rt, CapExit(rt.status), 0, disp)
    ELSE RunLoop(rt, max_steps, h, 0, disp)

\* --------------------------------------------------------------- programs
\* The bytecode the frames run.  A CALL* program pushes its seven (six)
\* arguments, calls and reads RETURNDATASIZE; the windows range over sizes
\* below, at and above the return data's, and over words that do not fit
\* usize or whose end overflows it.
Offsets == {0, 1, BIG}
Lengths == {0, 1, 2, USIZE_MAX, BIG}

\* Writes EE to memory[1], so that the memory is not all zero.
Prefill == <<Push(238), Push(1), Op("MSTORE8")>>

CallArgs(op, out_offset, out_len, in_len) ==
    <<Push(out_len), Push(out_offset), Push(in_len), Push(0)>>
    \o (IF op \in {"CALL", "CALLCODE"} THEN <<Push(1)>> ELSE <<>>)
    \o <<Push(5), Push(0)>>

CallProgram(op, out_offset, out_len, in_len) ==
    CallArgs(op, out_offset, out_len, in_len) \o <<Op(op), Op("RETURNDATASIZE")>>

\* A CALL* with the given gas word, to = 5, value = 7 and the input byte at
\* memory[1].
GasProgram(op, gas) ==
    Prefill \o <<Push(1), Push(0), Push(1), Push(1)>>
    \o (IF op \in {"CALL", "CALLCODE"} THEN <<Push(7)>> ELSE <<>>)
    \o <<Push(5), Push(gas)>>
    \o <<Op(op), Op("RETURNDATASIZE")>>

CreateArgs(op, code_offset, len) ==
    (IF op = "CREATE2" THEN <<Push(1)>> ELSE <<>>)
    \o <<Push(len), Push(code_offset), Push(0)>>

CreateProgram(op, code_offset, len) ==
    CreateArgs(op, code_offset, len) \o <<Op(op), Op("RETURNDATASIZE")>>

\* A program without its first d opcodes: the stack is d words short.
Drop(prog, d) == SubSeq(prog, d + 1, Len(prog))

\* Ten pure opcodes, and one push more than the stack holds.
PureProgram == [i \in 1..10 |-> IF i % 2 = 1 THEN Push(1) ELSE Op("POP")]
OverflowProgram == [i \in 1..(StackLimit + 1) |-> Push(1)]
StopProgram == <<Push(1), Op("STOP"), Push(1)>>
\* RETURNDATASIZE on a full stack.
FullThenSize == [i \in 1..StackLimit |-> Push(1)] \o <<Op("RETURNDATASIZE")>>

\* RETURNDATACOPY of len bytes from data_offset of the buffer (what
\* set_return_data put there) to memory_offset, and after a STATICCALL whose
\* return data is not written to memory.
CopyProgram(memory_offset, data_offset, len) ==
    Prefill \o <<Push(len), Push(data_offset), Push(memory_offset),
                 Op("RETURNDATACOPY")>>
CallThenCopy ==
    CallArgs("STATICCALL", 0, 0, 0)
    \o <<Op("STATICCALL"), Op("POP"), Push(1), Push(1), Push(0),
         Op("RETURNDATACOPY")>>
CopyPrograms ==
    {CopyProgram(mo, do, len) :
        mo \in {0, 1, BIG}, do \in {0, 1, USIZE_MAX, BIG}, len \in {0, 1, 2}}
    \cup {CopyProgram(0, 0, BIG), CopyProgram(USIZE_MAX, 0, 1), CallThenCopy,
          Drop(CopyProgram(0, 0, 1), 4)}

\* SSTORE of value at index, and the same with a word, or both, missing.
SStoreProgram(index, value) ==
    <<Push(value), Push(index), Op("SSTORE"), Op("RETURNDATASIZE")>>
SStorePrograms ==
    {SStoreProgram(2, 9), SStoreProgram(BIG, 0),
     Drop(SStoreProgram(2, 9), 1), Drop(SStoreProgram(2, 9), 2)}

\* LOGn of memory[offset .. offset + len) with t topics on the stack, the
\* topic popped i-th being 20 + i; t < n is a topic underflow.
LogName(n) ==
    CASE n = 0 -> "LOG0" [] n = 1 -> "LOG1" [] n = 2 -> "LOG2"
      [] n = 3 -> "LOG3" [] n = 4 -> "LOG4"
LogArgs(n, t, offset, len) ==
    [i \in 1..t |-> Push(20 + (t + 1 - i))]
    \o <<Push(len), Push(offset), Op(LogName(n)), Op("RETURNDATASIZE")>>
LogProgram(n, t, offset, len) == Prefill \o LogArgs(n, t, offset, len)
LogPrograms ==
    {LogProgram(n, n, 1, 1) : n \in 0..4}
    \cup {LogProgram(1, 1, off, len) : off \in {0, 1}, len \in {0, 2}}
    \cup {LogProgram(1, 1, BIG, 0), LogProgram(1, 1, 0, BIG),
          LogProgram(1, 1, USIZE_MAX, 1), LogProgram(1, 1, WORD_ALIGN + 1, 1),
          LogProgram(2, 1, 1, 1), LogProgram(4, 3, 1, 1), LogProgram(2, 1, BIG, 1),
          LogArgs(2, 1, 0, 1), LogArgs(1, 1, 0, 0),
          Drop(LogArgs(0, 0, 0, 1), 1)}

\* SUICIDE with heir 5, and without the word; SLOAD of index 2 followed by
\* an SSTORE, and without the word.
SuicideProgram == <<Push(5), Op("SUICIDE"), Op("RETURNDATASIZE")>>
SLoadProgram ==
    <<Push(2), Op("SLOAD"), Push(9), Push(2), Op("SSTORE"), Op("RETURNDATASIZE")>>
HostPrograms ==
    LogPrograms
    \cup {SuicideProgram, Drop(SuicideProgram, 1), SLoadProgram, Drop(SLoadProgram, 1),
          SStoreProgram(2, 9), Drop(SStoreProgram(2, 9), 1),
          Drop(CopyProgram(0, 0, 1), 3), CopyProgram(0, 0, 1),
          CallProgram("CALL", 0, 1, 1), CallProgram("STATICCALL", BIG, 1, 0),
          Prefill \o CallProgram("DELEGATECALL", 1, 2, 0),
          CreateProgram("CREATE", 0, 1), CreateProgram("CREATE2", 0, 0),
          PureProgram, StopProgram}

Programs ==
    {CallProgram(op, off, len, 0) : op \in CallOps, off \in Offsets, len \in Lengths}
    \cup {Prefill \o CallProgram(op, off, len, 0) :
            op \in CallOps, off \in {0, 1}, len \in {0, 1, 2}}
    \cup {CallProgram(op, 0, 1, len) : op \in CallOps, len \in {1, BIG}}
    \cup {CreateProgram(op, off, len) :
            op \in CreateOps, off \in {0, BIG}, len \in {0, 1, USIZE_MAX}}
    \cup {Drop(CallProgram(op, 0, 1, 0), d) : op \in CallOps, d \in 1..7}
    \cup {Drop(CreateProgram(op, 0, 1), d) : op \in CreateOps, d \in 1..4}
    \cup {PureProgram, OverflowProgram, StopProgram}
    \cup SStorePrograms
    \cup CopyPrograms
    \cup {FullThenSize}
    \cup {GasProgram(op, gas) : op \in CallOps, gas \in {U64_MAX, U64_MAX + 1}}
    \cup HostPrograms

\* The programs the step budget is verified on: pure ones, calls and creates
\* that continue, suspend or fail.
BudgetPrograms ==
    {PureProgram, OverflowProgram, StopProgram,
     CallProgram("CALL", 0, 1, 0),
     Prefill \o CallProgram("STATICCALL", 1, 2, 0),
     CallProgram("DELEGATECALL", BIG, 1, 0),
     Drop(CallProgram("CALL", 0, 1, 0), 3),
     CreateProgram("CREATE", 0, 1),
     CreateProgram("CREATE2", 0, 0)}

\* What the driver passes to set_return_data.
SetDatas == {<<221>>}

\* ------------------------------------------------------------------- Init
\* Runtime::new (lib.rs 136-148).
Init ==
    /\ code \in Programs
    /\ stack = <<>>
    /\ memory = EmptyMemory
    /\ pc = 1
    /\ mexit = Running
    /\ status = Running
    /\ return_data_buffer = <<>>
    /\ pending = "none"
    /\ capture = CapOk
    /\ dispatch = NoDispatch
    /\ context = ParentContext
    /\ events = <<>>
    /\ last = "new"

\* The answers of handler.call / handler.create an invocation that executes
\* up to k opcodes can consult: none if no CALL*/CREATE* is among them, and
\* no created address for a call.
ConsultedResps(rt, k) ==
    LET ahead == {code[i].op : i \in {j \in rt.pc..(rt.pc + k - 1) : j <= Len(code)}}
    IN  IF ahead \cap CreateOps # {} THEN Resps
        ELSE IF ahead \cap CallOps # {} THEN {r \in Resps : r.address = <<>>}
        ELSE {TrapResp}

\* The answers of handler.set_storage such an invocation can consult.
ConsultedStorage(rt, k) ==
    IF \E i \in rt.pc..(rt.pc + k - 1) : i <= Len(code) /\ code[i].op = "SSTORE"
    THEN StorageAnswers
    ELSE {Running}

\* The answers of handler.log and handler.mark_delete it can consult.
ConsultedLog(rt, k) ==
    IF \E i \in rt.pc..(rt.pc + k - 1) : i <= Len(code) /\ code[i].op \in LogOps
    THEN LogAnswers
    ELSE {Running}

ConsultedDelete(rt, k) ==
    IF \E i \in rt.pc..(rt.pc + k - 1) : i <= Len(code) /\ code[i].op = "SUICIDE"
    THEN DeleteAnswers
    ELSE {Running}

Handlers(rt, k) ==
    [fuel : 0..k, resp : ConsultedResps(rt, k), set_storage : ConsultedStorage(rt, k),
     log : ConsultedLog(rt, k), mark_delete : ConsultedDelete(rt, k)]

\* Every handler a step() can meet at a CALL*, CREATE* or SSTORE.
StepHandlers ==
    [fuel : 0..1, resp : Resps, set_storage : StorageAnswers,
     log : {Running}, mark_delete : {Running}]

\* The runtime and the record after a step()/run().
Returned_(o) ==
    /\ stack' = o.rt.stack
    /\ memory' = o.rt.memory
    /\ pc' = o.rt.pc
    /\ mexit' = o.rt.mexit
    /\ status' = o.rt.status
    /\ return_data_buffer' = o.rt.return_data_buffer
    /\ capture' = o.capture
    /\ dispatch' = o.dispatch
    /\ context' = o.rt.context
    /\ events' = o.rt.events
    /\ pending' = CASE o.capture.tag = "TrapCall" -> "call"
                    [] o.capture.tag = "TrapCreate" -> "create"
                    [] OTHER -> "none"
    /\ UNCHANGED code

\* The driver calls step(handler).
Step ==
    /\ pending = "none"
    /\ \E h \in Handlers(RT, 1) :
          \E o \in {RuntimeStep(RT, h, dispatch)} : Returned_(o)
    /\ last' = "step"

\* The driver calls run(max_steps, handler).
Run ==
    /\ pending = "none"
    /\ \E k \in 0..MaxRun : \E h \in Handlers(RT, k) :
          \E o \in {RuntimeRun(RT, k, h, dispatch)} : Returned_(o)
    /\ last' = "run"

\* The runtime and the record after a resume function returned c.
Resumed(kind, c, resp) ==
    /\ stack' = c.rt.stack
    /\ memory' = c.rt.memory
    /\ pc' = c.rt.pc
    /\ mexit' = c.rt.mexit
    /\ status' = c.rt.status
    /\ return_data_buffer' = c.rt.return_data_buffer
    /\ capture' = Capture(c.ctl, c.reason)
    /\ dispatch' = [kind |-> kind, opcode |-> dispatch.opcode, pre |-> RT,
                    invoked |-> TRUE, entry |-> RT, resp |-> resp,
                    post |-> c.rt, ctl |-> c.ctl, reason |-> c.reason]
    /\ pending' = "none"
    /\ context' = c.rt.context
    /\ events' = c.rt.events
    /\ last' = "resume"
    /\ UNCHANGED code

\* The driver resolves a suspended CALL*: save_return_value(reason, data).
ResolveCall ==
    /\ pending = "call"
    /\ \E r \in {x \in ExitResps : x.address = <<>>} :
          \E c \in {save_return_value(RT, r.reason, r.data)} :
             Resumed("save_return_value", c, r)

\* The driver resolves a suspended CREATE*: save_created_address(reason, address).
ResolveCreate ==
    /\ pending = "create"
    /\ \E r \in ExitResps :
          \E c \in {save_created_address(RT, r.reason, r.address)} :
             Resumed("save_created_address", c, r)

\* The driver calls set_return_data(data) (lib.rs 156-158); the buffer no
\* longer holds what the recorded dispatch left.
SetReturnData ==
    /\ pending = "none"
    /\ \E data \in SetDatas : return_data_buffer' = data
    /\ dispatch' = NoDispatch
    /\ events' = <<>>
    /\ last' = "set_return_data"
    /\ UNCHANGED <<code, stack, memory, pc, mexit, status, pending, capture, context>>

Next == Step \/ Run \/ ResolveCall \/ ResolveCreate \/ SetReturnData

Spec == Init /\ [][Next]_vars

\* The same runtime and driver on the programs of the step budget.
InitBudget == Init /\ code \in BudgetPrograms

SpecBudget == InitBudget /\ [][Next]_vars

\* The same runtime and driver on the programs of the host operations
\* (LOGn, SUICIDE, SLOAD, SSTORE) and a few calls, creates and copies.
InitHost == Init /\ code \in HostPrograms

SpecHost == InitHost /\ [][Next]_vars

\* ============================================================ properties
\* The handler's answer of the recorded dispatch has been merged by
\* save_return_value (save_created_address): directly inside call()
\* (create()), or by the driver's resume.
CallMerged ==
    /\ dispatch.invoked
    /\ \/ dispatch.kind = "save_return_value"
       \/ dispatch.kind = "call" /\ dispatch.resp.tag = "Exit"

CreateMerged ==
    /\ dispatch.invoked
    /\ \/ dispatch.kind = "save_created_address"
       \/ dispatch.kind = "create" /\ dispatch.resp.tag = "Exit"

\* The stack s without its n top words.
Below(s, n) == SubSeq(s, 1, Len(s) - n)

\* The deferred output window of the recorded call: out_offset is the top
\* word of the stack save_return_value was entered with, out_len the next.
HasWindow == Len(dispatch.entry.stack) >= 2
OutOffset == dispatch.entry.stack[Len(dispatch.entry.stack)]
OutLen == dispatch.entry.stack[Len(dispatch.entry.stack) - 1]

\* The window passes save_return_value's own validation: both words are on
\* the stack and fit usize, and the memory can be resized to hold the window.
WindowValid ==
    /\ HasWindow
    /\ FitsUsize(OutOffset) /\ FitsUsize(OutLen)
    /\ ResizeOffset(dispatch.entry.memory, OutOffset, OutLen).ok

TargetLen == Min(OutLen, Len(dispatch.resp.data))

\* ------------------------------------------------------------------- C1
\* C1: whenever a CALL* (CREATE*) dispatch ends in suspension, the parent's
\* stack is the stack before the opcode without the words the opcode popped
\* itself -- gas, to, (value), in_offset, in_len, so that out_offset and
\* out_len are still its two top words; value, code_offset, len and, for
\* CREATE2, salt -- and no result word has been pushed.
C1_SuspendedStack ==
    /\ pending = "call" =>
          /\ dispatch.kind = "call"
          /\ stack = Below(dispatch.pre.stack, CallPops(SchemeOf(dispatch.opcode)))
    /\ pending = "create" =>
          /\ dispatch.kind = "create"
          /\ stack = Below(dispatch.pre.stack,
                           IF dispatch.opcode = "CREATE2" THEN 4 ELSE 3)

\* A CALL suspended with out_len = 2 and out_offset = 1 still on top.
C1_Witness ==
    /\ pending = "call"
    /\ dispatch.opcode = "CALL"
    /\ Len(dispatch.pre.stack) = 7
    /\ stack = <<2, 1>>

\* ------------------------------------------------------------------- C2
\* C2 as stated: after save_return_value, for every reason, return data and
\* (out_offset, out_len) pair, the two words are removed and exactly one word,
\* 1 or 0, is pushed.
C2_AlwaysOneWord ==
    (CallMerged /\ HasWindow) =>
        \E w \in {0, 1} :
            dispatch.post.stack = Append(Below(dispatch.entry.stack, 2), w)

\* C2, amended: after save_return_value the two words out_offset and out_len
\* are removed for every reason and return data; exactly one word, 1 or 0, is
\* pushed when the window passes validation, and no word is pushed (the
\* function returns Exit with the validation error) when it does not.
C2_OneWordIfWindowValid ==
    (CallMerged /\ HasWindow) =>
        IF WindowValid
        THEN \E w \in {0, 1} :
                 dispatch.post.stack = Append(Below(dispatch.entry.stack, 2), w)
        ELSE /\ dispatch.post.stack = Below(dispatch.entry.stack, 2)
             /\ dispatch.ctl = "Exit"
             /\ dispatch.reason \in {NotSupported, InvalidRange}

\* A resumed call whose valid window got its word, an Error outcome's 0.
C2_Witness ==
    /\ dispatch.kind = "save_return_value"
    /\ WindowValid
    /\ dispatch.resp.reason = OutOfGas
    /\ dispatch.post.stack = <<0>>
    /\ stack = <<0>>

\* ------------------------------------------------------------------- C3
\* The indices of the bytes of memory m, and one beyond them.
Bytes(m) == 0..(Len(m.data) + 1)

\* Memory `after` is memory `before` with data[1..n] written at offset.
Written(before, after, offset, n, data) ==
    \A i \in Bytes(before) \cup Bytes(after) :
        ByteAt(after, i) = IF offset <= i /\ i < offset + n
                           THEN data[i - offset + 1]
                           ELSE ByteAt(before, i)

PaddedAddress(address) ==
    IF address = <<>> THEN 0 ELSE 256 * address[1][1] + address[1][2]

\* C4: save_created_address pushes exactly one word.  Succeed pushes the
\* created address left-padded (zero for no address) and continues; Revert
\* and Error push zero, whatever address came with them, and continue;
\* Fatal(e) pushes zero and returns Exit(e).
C4_CreatedAddress ==
    CreateMerged =>
        LET e == dispatch.entry
            q == dispatch.post
            r == dispatch.resp
        IN  CASE r.reason[1] = "Succeed" ->
                   /\ q.stack = Append(e.stack, PaddedAddress(r.address))
                   /\ dispatch.ctl = "Continue"
              [] r.reason[1] \in {"Revert", "Error"} ->
                   /\ q.stack = Append(e.stack, 0)
                   /\ dispatch.ctl = "Continue"
              [] r.reason[1] = "Fatal" ->
                   /\ q.stack = Append(e.stack, 0)
                   /\ dispatch.ctl = "Exit" /\ dispatch.reason = r.reason

\* A resumed CREATE2 that reverted with an address supplied: zero is pushed.
C4_Witness ==
    /\ dispatch.kind = "save_created_address"
    /\ dispatch.opcode = "CREATE2"
    /\ dispatch.resp.reason = Reverted
    /\ dispatch.resp.address # <<>>
    /\ stack = <<0>>

\* ------------------------------------------------------------------- C5
\* C5: while the frame is suspended on a call or create Trap, its
\* return_data_buffer is empty, whatever it held before the opcode.
C5_SuspendedBufferEmpty ==
    pending # "none" => return_data_buffer = <<>>

\* A CALL* suspended from a runtime whose buffer was not empty.
C5_Witness ==
    /\ pending = "call"
    /\ dispatch.pre.return_data_buffer # <<>>
    /\ return_data_buffer = <<>>

\* ------------------------------------------------------------------- C6
\* C6 as stated: after the resume of any CALL*, return_data_buffer equals the
\* child's returned bytes, for every reason and every (out_offset, out_len).
C6_BufferAlwaysAssigned ==
    CallMerged => dispatch.post.return_data_buffer = dispatch.resp.data

\* C6, amended: after save_return_value, return_data_buffer equals the
\* child's returned bytes for every reason when the (out_offset, out_len)
\* window passes validation, whatever out_len is; when the window does not
\* pass, the buffer is left empty as call() reset it.
C6_BufferIfWindowValid ==
    CallMerged =>
        dispatch.post.return_data_buffer =
            IF WindowValid THEN dispatch.resp.data ELSE <<>>

\* A resumed call with out_len = 0 whose child failed with two bytes of data.
C6_Witness ==
    /\ dispatch.kind = "save_return_value"
    /\ WindowValid /\ OutLen = 0
    /\ dispatch.resp.reason = OutOfGas
    /\ dispatch.resp.data = <<170, 187>>
    /\ return_data_buffer = <<170, 187>>

\* ------------------------------------------------------------------- C7
\* C7 as stated: after a CREATE/CREATE2 child completes (Exit from the
\* handler, or resolved through save_created_address), the parent's
\* return_data_buffer holds the child's returned bytes.
C7_CreateBufferPopulated ==
    CreateMerged => dispatch.post.return_data_buffer = dispatch.resp.data

\* ------------------------------------------------------------------- C8
\* RETURNDATASIZE, the opcode after the recorded call, has executed.
AfterReturnDataSize ==
    /\ pc = dispatch.post.pc + 1
    /\ dispatch.post.pc <= Len(code)
    /\ code[dispatch.post.pc].op = "RETURNDATASIZE"

\* C8 as stated: after an inner call ends with Error or Fatal, the parent's
\* return_data_buffer is empty.
C8_ErrorBufferEmpty ==
    (CallMerged /\ dispatch.resp.reason[1] \in {"Error", "Fatal"}) =>
        dispatch.post.return_data_buffer = <<>>

\* C8, amended: after an inner call ends with Error or Fatal, the parent's
\* return_data_buffer holds the bytes the handler delivered with that
\* outcome (none if the output window failed validation), and RETURNDATASIZE
\* pushes their number; the buffer is empty only if the handler delivered
\* no bytes.
C8_ErrorBufferAsDelivered ==
    (CallMerged /\ dispatch.resp.reason[1] \in {"Error", "Fatal"}) =>
        LET delivered == IF WindowValid THEN dispatch.resp.data ELSE <<>>
        IN  /\ dispatch.post.return_data_buffer = delivered
            /\ AfterReturnDataSize =>
                   stack = Append(dispatch.post.stack, Len(delivered))

\* A call failed with OutOfGas and one byte of data; RETURNDATASIZE pushed 1.
C8_Witness ==
    /\ CallMerged /\ WindowValid
    /\ dispatch.resp.reason = OutOfGas
    /\ dispatch.resp.data = <<170>>
    /\ AfterReturnDataSize
    /\ stack = <<0, 1>>

\* ------------------------------------------------------------------- C9
\* C9 as stated: a child's Fatal(e), direct or through resume, makes the
\* parent push zero and exit with the same e; a child's Error or Revert
\* never terminates the parent.
C9_FatalAlwaysPropagates ==
    (CallMerged \/ CreateMerged) =>
        LET base == IF CallMerged THEN Below(dispatch.entry.stack, 2)
                    ELSE dispatch.entry.stack
        IN  CASE dispatch.resp.reason[1] = "Fatal" ->
                   /\ dispatch.post.stack = Append(base, 0)
                   /\ dispatch.ctl = "Exit" /\ dispatch.reason = dispatch.resp.reason
              [] dispatch.resp.reason[1] \in {"Error", "Revert"} ->
                   dispatch.ctl = "Continue"
              [] OTHER -> TRUE

\* C9, amended: for a create, and for a call whose output window passes
\* validation, a child's Fatal(e) makes the parent push zero and return
\* Exit(e) -- which step()/run() turn into the frame's status on the direct
\* path -- and a child's Error or Revert continues the parent.  For a call
\* whose window does not pass validation the parent exits with the
\* validation error and pushes nothing, whatever the child's reason.
C9_FatalPropagatesIfWindowValid ==
    /\ (CreateMerged \/ (CallMerged /\ WindowValid)) =>
          LET base == IF CallMerged THEN Below(dispatch.entry.stack, 2)
                      ELSE dispatch.entry.stack
          IN  CASE dispatch.resp.reason[1] = "Fatal" ->
                     /\ dispatch.post.stack = Append(base, 0)
                     /\ dispatch.ctl = "Exit"
                     /\ dispatch.reason = dispatch.resp.reason
                     /\ dispatch.kind \in {"call", "create"} =>
                            /\ status = dispatch.resp.reason
                            /\ capture = CapExit(dispatch.resp.reason)
                [] dispatch.resp.reason[1] \in {"Error", "Revert"} ->
                     dispatch.ctl = "Continue"
                [] OTHER -> TRUE
    /\ (CallMerged /\ ~WindowValid) =>
          /\ dispatch.ctl = "Exit"
          /\ dispatch.reason \in {StackUnderflow, NotSupported, InvalidRange}
          /\ Len(dispatch.post.stack) = Max(0, Len(dispatch.entry.stack) - 2)

\* A CALL whose child ended Fatal inside handler.call: zero pushed, the
\* frame's status is the child's error.
C9_Witness ==
    /\ dispatch.kind = "call" /\ dispatch.resp.tag = "Exit" /\ WindowValid
    /\ dispatch.resp.reason = CallErrorAsFatal
    /\ status = CallErrorAsFatal
    /\ stack = <<0>>

\* ------------------------------------------------------------------ C10
\* The handler as run() leaves it after n opcodes passed pre_validate.
HandlerAfter(h, n) == [h EXCEPT !.fuel = Max(0, @ - n)]

\* run(a) returned o1 from runtime rt; if the budget ran out, run(b) from
\* where it stopped ends as run(a + b) from rt does.
RunsCompose(rt, a, b, h, o1) ==
    /\ o1.steps <= a
    /\ o1.capture = CapExit(StepLimitReached) =>
          /\ o1.steps = a
          /\ o1.rt.status = Running
          /\ \A o2 \in {RuntimeRun(o1.rt, b, HandlerAfter(h, o1.steps), o1.dispatch)} :
                \A o \in {RuntimeRun(rt, a + b, h, dispatch)} :
                    /\ o2.rt = o.rt
                    /\ o2.capture = o.capture
                    /\ o1.steps + o2.steps = o.steps

\* C10: run(max_steps) on a running runtime returns steps <= max_steps; when
\* the budget is exhausted before an exit or trap it returns
\* Exit(StepLimitReached) and leaves the status running, and run(a) followed
\* by run(b) reaches the same final state and exit as one run(a + b).
C10_StepBudget ==
    (pending = "none" /\ status = Running) =>
        \A a \in 0..MaxRun : \A b \in 0..MaxRun :
            \A h \in Handlers(RT, a + b) :
                \A o1 \in {RuntimeRun(RT, a, h, dispatch)} :
                    RunsCompose(RT, a, b, h, o1)

\* run(3) on the ten pure opcodes returned StepLimitReached after three.
C10_Witness ==
    /\ code = PureProgram
    /\ pc = 4
    /\ capture = CapExit(StepLimitReached)
    /\ status = Running
    /\ stack = <<1>>

\* ------------------------------------------------------------------ C11
\* C11: once the runtime has surfaced a terminal Exit(reason) (other than
\* StepLimitReached), every later step() returns Exit(reason) and every later
\* run(n) returns (0, Exit(reason)); neither changes the stack, the memory,
\* the program counter or return_data_buffer, and neither emits anything or
\* invokes a handler operation.
C11_TerminalIdempotence ==
    /\ (last \in {"step", "run"} /\ capture.tag = "Exit"
            /\ capture.reason # StepLimitReached) =>
          status = capture.reason
    /\ (pending = "none" /\ status # Running) =>
          \A same \in {Outcome(RT, CapExit(status), 0, dispatch)} :
              /\ \A h \in StepHandlers : RuntimeStep(RT, h, dispatch) = same
              /\ \A n \in 0..MaxRun :
                     \A h \in Handlers(RT, n) :
                         RuntimeRun(RT, n, h, dispatch) = same

\* A step() after STOP ended the frame: Exit(Stopped) again, nothing emitted.
C11_Witness ==
    /\ code = StopProgram
    /\ last = "step"
    /\ events = <<>>
    /\ capture = CapExit(Stopped)
    /\ status = Stopped
    /\ pc = 2 /\ stack = <<1>>

\* ------------------------------------------------------------------ C12
\* C12: in every state reachable through step(), run() and the resume
\* functions, the status is terminated(reason) if and only if the machine has
\* exited, with the same reason; an Exit that step() or run() return from
\* system-opcode dispatch or from a pre_validate failure sets both.
C12_StatusMachineAgree ==
    /\ status = mexit
    /\ (last \in {"step", "run"} /\ capture.tag = "Exit"
            /\ capture.reason # StepLimitReached) =>
          (status = capture.reason /\ mexit = capture.reason)

\* A CALL whose in_len does not fit usize: the dispatch returned
\* Exit(NotSupported), status and machine both hold it.
C12_Witness ==
    /\ last = "step"
    /\ dispatch.kind = "call" /\ ~dispatch.invoked
    /\ capture = CapExit(NotSupported)
    /\ status = NotSupported /\ mexit = NotSupported

\* ------------------------------------------------------------------ C13
\* The positions of the events of kind k in the sequence es.
EventsOf(es, k) == {i \in 1..Len(es) : es[i].ev = k}

\* One step() call emitted at most one Step and at most one StepResult, the
\* StepResult right after the Step.
Sandwiched(es) ==
    /\ Cardinality(EventsOf(es, "Step")) <= 1
    /\ Cardinality(EventsOf(es, "StepResult")) <= 1
    /\ EventsOf(es, "Step") \subseteq {1}
    /\ EventsOf(es, "StepResult") \subseteq {2}
    /\ EventsOf(es, "StepResult") # {} => EventsOf(es, "Step") # {}

\* C13: in the event stream of step() calls every Step event is followed by
\* exactly one StepResult before the next Step, except when pre_validate
\* fails for that step, and then no StepResult follows; a StepResult is never
\* emitted without a Step earlier in the same step() call.
C13_TraceSandwiching ==
    /\ last = "step" => Sandwiched(events)
    /\ pending = "none" =>
          \A h \in Handlers(RT, 1) :
              \A o \in {RuntimeStep(RT, h, dispatch)} :
                  /\ Sandwiched(o.rt.events)
                  /\ (EventsOf(o.rt.events, "Step") # {}
                          /\ EventsOf(o.rt.events, "StepResult") = {})
                       <=> (HasNext(RT) /\ ~PreValidateOk(h))

\* A step() whose pre_validate failed: the Step event and no StepResult.
C13_Witness ==
    /\ last = "step"
    /\ Len(events) = 1 /\ events[1].ev = "Step"
    /\ capture = CapExit(OutOfGas)

\* ------------------------------------------------------------------ C14
\* In the record es every set_storage is immediately preceded by the SStore
\* event of the same address, index and value, and every SStore event is
\* immediately followed by that set_storage.
PreImageOrdered(es, address) ==
    /\ \A i \in EventsOf(es, "set_storage") :
          /\ i > 1
          /\ es[i - 1] = SStoreEvent(es[i].address, es[i].index, es[i].value)
          /\ es[i].address = address
    /\ \A i \in EventsOf(es, "SStore") :
          /\ i < Len(es)
          /\ es[i + 1] = SetStorage(es[i].address, es[i].index, es[i].value)

\* C14: for every SSTORE the SStore trace event {address = executing
\* address, index, value} is emitted strictly before handler.set_storage is
\* invoked with the same address, index and value, and it is emitted also
\* when set_storage then fails.
C14_PreImageOrdering ==
    /\ PreImageOrdered(events, context.address)
    /\ (pending = "none" /\ HasNext(RT) /\ code[pc].op = "SSTORE" /\ Len(stack) >= 2) =>
          \A h \in Handlers(RT, 1) :
              PreValidateOk(h) =>
                  \A o \in {RuntimeStep(RT, h, dispatch)} :
                      /\ Len(o.rt.events) = 4
                      /\ o.rt.events[3] = SStoreEvent(context.address, stack[Len(stack)],
                                                      stack[Len(stack) - 1])
                      /\ o.rt.events[4] = SetStorage(context.address, stack[Len(stack)],
                                                     stack[Len(stack) - 1])

\* An SSTORE of 9 at index 2 whose set_storage failed: the event was emitted.
C14_Witness ==
    /\ capture = CapExit(StorageError)
    /\ Len(events) >= 2
    /\ events[Len(events) - 1] = SStoreEvent(ParentContext.address, 2, 9)
    /\ events[Len(events)] = SetStorage(ParentContext.address, 2, 9)

\* ------------------------------------------------------------------ C15
\* The handler's call (create) was invoked by the recorded dispatch and
\* answered Trap.
HandlerTrapped(kind) ==
    /\ dispatch.kind = kind
    /\ dispatch.invoked
    /\ dispatch.resp.tag = "Trap"
    /\ events # <<>> /\ events[Len(events)].ev = kind

\* C15: step() and run() surface a Trap capture exactly when the opcode
\* dispatched is CALL, CALLCODE, DELEGATECALL, STATICCALL, CREATE or CREATE2
\* and the handler's call/create returned Trap; every other opcode, and these
\* six when the handler returns Exit, complete within the step and never
\* yield a suspension.
C15_SuspensionPoints ==
    /\ pending = "call" <=> capture = CapTrapCall
    /\ pending = "create" <=> capture = CapTrapCreate
    /\ last \notin {"step", "run"} => capture.tag \notin {"TrapCall", "TrapCreate"}
    /\ last \in {"step", "run"} =>
          /\ capture = CapTrapCall <=> HandlerTrapped("call")
          /\ capture = CapTrapCreate <=> HandlerTrapped("create")
    /\ capture = CapTrapCall =>
          dispatch.opcode \in CallOps /\ code[pc - 1].op = dispatch.opcode
    /\ capture = CapTrapCreate =>
          dispatch.opcode \in CreateOps /\ code[pc - 1].op = dispatch.opcode

\* A CREATE2 suspended by run().
C15_Witness ==
    /\ last = "run"
    /\ capture = CapTrapCreate
    /\ pending = "create"
    /\ dispatch.opcode = "CREATE2"

\* ------------------------------------------------------------------ C16
\* The recorded dispatch invoked handler.call; CallRecord is the invocation,
\* and GasWord, ToWord and ValueWord the words the opcode found on the stack.
CallInvoked == dispatch.kind = "call" /\ dispatch.invoked
CallRecord == dispatch.entry.events[Len(dispatch.entry.events)]
GasWord == dispatch.pre.stack[Len(dispatch.pre.stack)]
ToWord == dispatch.pre.stack[Len(dispatch.pre.stack) - 1]
ValueWord == dispatch.pre.stack[Len(dispatch.pre.stack) - 2]

\* C16: the child Context passed to handler.call is determined by the
\* scheme: Call and StaticCall give {address = target, caller =
\* parent.address, apparent_value = value} (value = 0 for StaticCall);
\* CallCode gives {address = parent.address, caller = parent.address,
\* apparent_value = value}; DelegateCall gives the parent's Context.
C16_ChildContext ==
    CallInvoked =>
        LET parent == dispatch.pre.context
            child == CallRecord.context
        IN  /\ CallRecord.ev = "call"
            /\ CASE dispatch.opcode = "CALL" ->
                      child = [address |-> H160Of(ToWord), caller |-> parent.address,
                               apparent_value |-> ValueWord]
                 [] dispatch.opcode = "STATICCALL" ->
                      child = [address |-> H160Of(ToWord), caller |-> parent.address,
                               apparent_value |-> 0]
                 [] dispatch.opcode = "CALLCODE" ->
                      child = [address |-> parent.address, caller |-> parent.address,
                               apparent_value |-> ValueWord]
                 [] dispatch.opcode = "DELEGATECALL" -> child = parent

\* A DELEGATECALL: the child runs in the parent's Context.
C16_Witness ==
    /\ CallInvoked
    /\ dispatch.opcode = "DELEGATECALL"
    /\ CallRecord.context = ParentContext
    /\ CallRecord.to = <<0, 5>>

\* ------------------------------------------------------------------ C17
\* C17: handler.call receives a Transfer if and only if the scheme is Call
\* (source = parent.address, target = call target, value = popped value) or
\* CallCode (source = target = parent.address, value = popped value);
\* DelegateCall and StaticCall pass none.  is_static is true if and only if
\* the scheme is StaticCall.
C17_TransferAndStatic ==
    CallInvoked =>
        LET parent == dispatch.pre.context
        IN  /\ CallRecord.is_static <=> dispatch.opcode = "STATICCALL"
            /\ CallRecord.transfer # <<>> <=> dispatch.opcode \in {"CALL", "CALLCODE"}
            /\ dispatch.opcode = "CALL" =>
                  CallRecord.transfer =
                      << [source |-> parent.address, target |-> H160Of(ToWord),
                          value |-> ValueWord] >>
            /\ dispatch.opcode = "CALLCODE" =>
                  CallRecord.transfer =
                      << [source |-> parent.address, target |-> parent.address,
                          value |-> ValueWord] >>

\* A STATICCALL: no Transfer, is_static set.
C17_Witness ==
    /\ CallInvoked
    /\ dispatch.opcode = "STATICCALL"
    /\ CallRecord.transfer = <<>>
    /\ CallRecord.is_static

\* ------------------------------------------------------------------ C18
\* C18: the gas word popped by a CALL* is passed to handler.call as
\* Some(gas) when gas <= u64::MAX, exactly u64::MAX included, and as None
\* when gas > u64::MAX; it never wraps or truncates.
C18_GasClamp ==
    CallInvoked =>
        CallRecord.gas = IF GasWord <= U64_MAX THEN <<GasWord>> ELSE <<>>

\* A CALL with gas = u64::MAX + 1: None is passed.
C18_Witness ==
    /\ CallInvoked
    /\ dispatch.opcode = "CALL"
    /\ GasWord = U64_MAX + 1
    /\ CallRecord.gas = <<>>

\* ------------------------------------------------------------------ C19
\* The runtime is at a RETURNDATACOPY with its three words on the stack:
\* memory_offset on top, then data_offset, then len.
AtReturnDataCopy ==
    /\ pending = "none" /\ HasNext(RT)
    /\ code[pc].op = "RETURNDATACOPY"
    /\ Len(stack) >= 3
CopyMemoryOffset == stack[Len(stack)]
CopyDataOffset == stack[Len(stack) - 1]
CopyLen == stack[Len(stack) - 2]

\* The three words pass the conversions to usize and the memory can be
\* resized to hold [memory_offset, memory_offset + len).
CopyArgsValid ==
    /\ FitsUsize(CopyMemoryOffset) /\ FitsUsize(CopyDataOffset) /\ FitsUsize(CopyLen)
    /\ ResizeOffset(memory, CopyMemoryOffset, CopyLen).ok

\* The step o out of bounds: OutOfOffset, no byte written; in bounds: the
\* bytes of the buffer written at memory_offset.
CopyByBounds(o) ==
    IF CopyDataOffset + CopyLen > Len(return_data_buffer)
    THEN /\ o.capture = CapExit(OutOfOffset)
         /\ Written(memory, o.rt.memory, CopyMemoryOffset, 0, <<>>)
    ELSE /\ o.capture = CapOk
         /\ o.rt.stack = Below(stack, 3)
         /\ Written(memory, o.rt.memory, CopyMemoryOffset, CopyLen,
                    SubSeq(return_data_buffer, CopyDataOffset + 1,
                           CopyDataOffset + CopyLen))

\* C19 as stated: RETURNDATACOPY exits with OutOfOffset whenever data_offset
\* + len exceeds the length of return_data_buffer or the addition overflows,
\* and copies nothing then; otherwise it copies exactly
\* buffer[data_offset .. data_offset + len) to memory at memory_offset.
C19_OutOfOffsetWhenever ==
    AtReturnDataCopy =>
        \A h \in Handlers(RT, 1) :
            PreValidateOk(h) =>
                \A o \in {RuntimeStep(RT, h, dispatch)} : CopyByBounds(o)

\* C19, amended: when memory_offset, data_offset and len fit usize and the
\* memory can be resized for [memory_offset, memory_offset + len),
\* RETURNDATACOPY exits with OutOfOffset whenever data_offset + len exceeds
\* the buffer's length or overflows usize, copying nothing, and otherwise
\* copies exactly buffer[data_offset .. data_offset + len) to memory_offset;
\* when a word does not fit usize or the resize fails it exits with that
\* validation error before the bounds check, copying nothing.
C19_OutOfOffsetIfArgsValid ==
    AtReturnDataCopy =>
        \A h \in Handlers(RT, 1) :
            PreValidateOk(h) =>
                \A o \in {RuntimeStep(RT, h, dispatch)} :
                    IF CopyArgsValid
                    THEN CopyByBounds(o)
                    ELSE /\ o.capture.tag = "Exit"
                         /\ o.capture.reason \in {NotSupported, InvalidRange}
                         /\ Written(memory, o.rt.memory, CopyMemoryOffset, 0, <<>>)

\* After a STATICCALL that returned AA BB, the byte at data_offset 1 was
\* copied to memory[0].
C19_Witness ==
    /\ code = CallThenCopy
    /\ pc = Len(code) + 1
    /\ capture = CapOk
    /\ return_data_buffer = <<170, 187>>
    /\ ByteAt(memory, 0) = 187
    /\ stack = <<>>

\* RETURNDATACOPY with data_offset = usize::MAX and len = 1: OutOfOffset.
C19_OverflowWitness ==
    /\ code = CopyProgram(0, USIZE_MAX, 1)
    /\ capture = CapExit(OutOfOffset)
    /\ ByteAt(memory, 0) = 0 /\ ByteAt(memory, 1) = 238

\* ------------------------------------------------------------------ C20
\* C20: in every reachable state the stack depth is at most stack_limit, and
\* a system opcode or resume function whose push would exceed the limit exits
\* with StackOverflow and leaves the stack exactly as it was before the
\* failed push.
C20_StackBounded ==
    /\ Len(stack) <= StackLimit
    /\ (pending = "none" /\ HasNext(RT) /\ code[pc].op = "RETURNDATASIZE"
            /\ Len(stack) = StackLimit) =>
          \A h \in Handlers(RT, 1) :
              PreValidateOk(h) =>
                  \A o \in {RuntimeStep(RT, h, dispatch)} :
                      /\ o.capture = CapExit(StackOverflow)
                      /\ o.rt.stack = stack
    /\ Len(stack) = StackLimit =>
          \A r \in ExitResps :
              \A c \in {save_created_address(RT, r.reason, r.address)} :
                  /\ c.ctl = "Exit" /\ c.reason = StackOverflow
                  /\ c.rt.stack = stack

\* RETURNDATASIZE on a full stack exited with StackOverflow, the stack full
\* as before.
C20_Witness ==
    /\ code = FullThenSize
    /\ capture = CapExit(StackOverflow)
    /\ status = StackOverflow
    /\ Len(stack) = StackLimit

\* ------------------------------------------------------------------ C21
\* Memory b is at least as large as memory a, and within the limit.
GrownWithin(a, b) ==
    /\ b.elen >= a.elen
    /\ Len(b.data) >= Len(a.data)
    /\ b.elen <= MemoryLimit
    /\ Len(b.data) <= MemoryLimit

\* C21: across every sequence of step(), run() and resume operations of one
\* frame the memory size never decreases and never exceeds memory_limit,
\* also when a system opcode fails after its resize (RETURNDATACOPY out of
\* offset, LOGn topic underflow, CALL*/CREATE* rejected by the handler).
C21_MemoryMonotone == [][GrownWithin(memory, memory')]_vars

\* A RETURNDATACOPY of one byte from an empty buffer on a fresh memory: the
\* memory was resized to one word, then the opcode failed with OutOfOffset.
C21_Witness ==
    /\ code = Drop(CopyProgram(0, 0, 1), 3)
    /\ capture = CapExit(OutOfOffset)
    /\ memory.elen = WORD_ALIGN
    /\ dispatch = NoDispatch

\* A LOG2 with one topic on a fresh memory: resized, then StackUnderflow.
C21_LogWitness ==
    /\ code = LogArgs(2, 1, 0, 1)
    /\ capture = CapExit(StackUnderflow)
    /\ memory.elen = WORD_ALIGN
    /\ events # <<>> => events[Len(events)].ev # "log"

\* ------------------------------------------------------------------ C22
\* C22: the frame's Context (address, caller, apparent_value) is the one
\* Runtime::new was given in every reachable state: step(), run(), every
\* system opcode, set_return_data, save_return_value and
\* save_created_address leave it unchanged, also when a child Context is
\* built for a nested call.
C22_ContextImmutable ==
    /\ context = ParentContext
    /\ dispatch.pre.context = ParentContext
    /\ dispatch.entry.context = ParentContext
    /\ dispatch.post.context = ParentContext

\* A CALL to address 5 with value 1 that the handler ran to the end: the
\* child got its own Context, the frame's is the one it started with.
C22_Witness ==
    /\ CallInvoked
    /\ dispatch.opcode = "CALL"
    /\ dispatch.resp.tag = "Exit"
    /\ CallRecord.context = Context(<<0, 5>>, ParentContext.address, 1)
    /\ context = ParentContext
    /\ last = "step"

\* ------------------------------------------------------------------ C23
\* The last entry of the record es is the handler operation op.
LastIs(es, op) == es # <<>> /\ es[Len(es)].ev = op

\* The outcome o of a step()/run(1) with handler h: a mutation the handler
\* rejected ended the frame with the handler's error, and an accepted
\* mark_delete ended it with Suicided.
HostRejection(o, h) ==
    /\ (LastIs(o.rt.events, "set_storage") /\ h.set_storage # Running) =>
          /\ o.capture = CapExit(h.set_storage)
          /\ o.rt.status = h.set_storage
    /\ (LastIs(o.rt.events, "log") /\ h.log # Running) =>
          /\ o.capture = CapExit(h.log)
          /\ o.rt.status = h.log
    /\ LastIs(o.rt.events, "mark_delete") =>
          /\ o.capture = CapExit(IF h.mark_delete = Running THEN Suicided
                                 ELSE h.mark_delete)
          /\ o.rt.status = o.capture.reason

\* The runtime is at opcode op with at least n words on the stack.
AtOpcode(ops, n) ==
    /\ pending = "none" /\ HasNext(RT)
    /\ code[pc].op \in ops
    /\ Len(stack) >= n

\* C23: when handler.set_storage (SSTORE), handler.log (LOGn) or
\* handler.mark_delete (SUICIDE) reports a failure, dispatch returns Exit with
\* that error and step()/run() set the status to it; when mark_delete
\* succeeds, SUICIDE has marked the executing address for deletion with the
\* popped target as heir and the frame exits with Succeed::Suicided.
C23_HostRejections ==
    /\ pending = "none" =>
          \A h \in Handlers(RT, 1) :
              /\ \A o \in {RuntimeStep(RT, h, dispatch)} : HostRejection(o, h)
              /\ \A o \in {RuntimeRun(RT, 1, h, dispatch)} : HostRejection(o, h)
    /\ AtOpcode({"SUICIDE"}, 1) =>
          \A h \in Handlers(RT, 1) :
              PreValidateOk(h) =>
                  \A o \in {RuntimeStep(RT, h, dispatch)} :
                      /\ LastIs(o.rt.events, "mark_delete")
                      /\ o.rt.events[Len(o.rt.events)]
                             = MarkDelete(context.address, H160Of(stack[Len(stack)]))
                      /\ o.rt.stack = Below(stack, 1)
    /\ AtOpcode({"SSTORE"}, 2) =>
          \A h \in Handlers(RT, 1) :
              PreValidateOk(h) =>
                  \A o \in {RuntimeStep(RT, h, dispatch)} :
                      LastIs(o.rt.events, "set_storage")
    /\ (last \in {"step", "run"} /\ capture = CapExit(Suicided)) =>
          /\ status = Suicided
          /\ events # <<>> => LastIs(events, "mark_delete")
    /\ (last \in {"step", "run"}
            /\ capture.reason \in {StorageError, LogError, DeleteError}) =>
          /\ capture.tag = "Exit"
          /\ status = capture.reason
          /\ events # <<>> =>
                LastIs(events, CASE capture.reason = StorageError -> "set_storage"
                                 [] capture.reason = LogError -> "log"
                                 [] capture.reason = DeleteError -> "mark_delete")

\* A LOG2 the handler rejected: the frame ended with the handler's error.
C23_Witness ==
    /\ capture = CapExit(LogError)
    /\ status = LogError
    /\ LastIs(events, "log")
    /\ Len(events[Len(events)].topics) = 2

\* A SUICIDE with heir 5 the handler accepted.
C23_SuicideWitness ==
    /\ code = SuicideProgram
    /\ capture = CapExit(Suicided)
    /\ status = Suicided
    /\ events[Len(events)] = MarkDelete(ParentContext.address, <<0, 5>>)
    /\ stack = <<>>

\* ------------------------------------------------------------------ C24
\* C24: when pre_validate rejects the next opcode in step(), the opcode is
\* not executed: the machine is terminated with that error, the status
\* becomes that error, step() returns Exit(error), the stack, the memory, the
\* program counter and return_data_buffer are unchanged, and no handler
\* call, create or mutation is invoked for that opcode (only the Step event
\* has been emitted).
C24_PreValidateRejects ==
    /\ (pending = "none" /\ HasNext(RT) /\ status = Running) =>
          \A h \in {x \in Handlers(RT, 1) : ~PreValidateOk(x)} :
              \A o \in {RuntimeStep(RT, h, dispatch)} :
                  /\ o.capture = CapExit(OutOfGas)
                  /\ o.rt.mexit = OutOfGas
                  /\ o.rt.status = OutOfGas
                  /\ o.rt.stack = stack
                  /\ o.rt.memory = memory
                  /\ o.rt.pc = pc
                  /\ o.rt.return_data_buffer = return_data_buffer
                  /\ o.rt.events = <<StepEvent(RT)>>
                  /\ o.dispatch = dispatch
    /\ (last = "step" /\ capture = CapExit(OutOfGas) /\ events # <<>>) =>
          /\ Len(events) = 1 /\ events[1].ev = "Step"
          /\ events[1].position = pc /\ events[1].stack = stack
          /\ status = OutOfGas /\ mexit = OutOfGas

\* A LOG2 rejected by pre_validate: its words are still on the stack, the
\* memory is as the prefill left it, handler.log was not invoked.
C24_Witness ==
    /\ code = LogProgram(2, 2, 1, 1)
    /\ last = "step"
    /\ capture = CapExit(OutOfGas)
    /\ status = OutOfGas
    /\ code[pc].op = "LOG2"
    /\ stack = <<22, 21, 1, 1>>
    /\ events = <<[ev |-> "Step", opcode |-> "LOG2", position |-> pc, stack |-> stack]>>

\* ------------------------------------------------------------------ C25
\* The runtime is at a LOGn: LogOffset is the top word of the stack and
\* LogLen the next, the n topics lie below them.
AtLog == pending = "none" /\ HasNext(RT) /\ code[pc].op \in LogOps
LogOffset == stack[Len(stack)]
LogLen == stack[Len(stack) - 1]
TopicsShort == Len(stack) < 2 + LogN(code[pc].op)

\* offset and len fit usize and the memory can be resized to hold the data.
LogArgsValid ==
    /\ Len(stack) >= 2
    /\ FitsUsize(LogOffset) /\ FitsUsize(LogLen)
    /\ ResizeOffset(memory, LogOffset, LogLen).ok

\* The step o has invoked handler.log, last of all, with the executing
\* address, the n topics in pop order and memory[offset .. offset + len).
LogPassed(o) ==
    /\ LastIs(o.rt.events, "log")
    /\ Cardinality(EventsOf(o.rt.events, "log")) = 1
    /\ \A rec \in {o.rt.events[Len(o.rt.events)]} :
          /\ rec.address = context.address
          /\ rec.topics = [i \in 1..LogN(code[pc].op) |-> stack[Len(stack) - 1 - i]]
          /\ rec.data = [i \in 1..LogLen |-> ByteAt(memory, LogOffset + i - 1)]
          /\ rec.data = <<>> <=> LogLen = 0
    /\ o.rt.stack = Below(stack, 2 + LogN(code[pc].op))

\* The step o ended with the stack error, handler.log not invoked.
LogUnderflow(o) ==
    /\ o.capture = CapExit(StackUnderflow)
    /\ EventsOf(o.rt.events, "log") = {}

\* C25 as stated: LOGn passes to handler.log the executing address, exactly
\* n topics in the order they are popped after (offset, len), and data equal
\* to memory[offset .. offset + len), empty if and only if len = 0; if fewer
\* than n topics are on the stack the frame exits with the stack error and
\* handler.log is not invoked.
C25_LogAsStated ==
    AtLog =>
        \A h \in Handlers(RT, 1) :
            PreValidateOk(h) =>
                \A o \in {RuntimeStep(RT, h, dispatch)} :
                    /\ TopicsShort => LogUnderflow(o)
                    /\ (~TopicsShort /\ LogArgsValid) => LogPassed(o)

\* C25, amended: when offset and len fit usize and the memory can be resized
\* for them, LOGn passes to handler.log the executing address, exactly n
\* topics in pop order and data equal to memory[offset .. offset + len),
\* empty if and only if len = 0, and with fewer than n topics on the stack it
\* exits with the stack error without invoking handler.log; when offset or
\* len does not fit usize or the resize fails, it exits with that validation
\* error before any topic is popped, also if topics are missing, and
\* handler.log is not invoked.
C25_LogIfArgsValid ==
    AtLog =>
        \A h \in Handlers(RT, 1) :
            PreValidateOk(h) =>
                \A o \in {RuntimeStep(RT, h, dispatch)} :
                    /\ (TopicsShort /\ (Len(stack) < 2 \/ LogArgsValid)) =>
                          LogUnderflow(o)
                    /\ (~TopicsShort /\ LogArgsValid) => LogPassed(o)
                    /\ (Len(stack) >= 2 /\ ~LogArgsValid) =>
                          /\ o.capture.tag = "Exit"
                          /\ o.capture.reason \in {NotSupported, InvalidRange}
                          /\ EventsOf(o.rt.events, "log") = {}
                          /\ o.rt.stack = Below(stack, 2)

\* A LOG4 of the byte EE at memory[1]: four topics in pop order.
C25_Witness ==
    /\ code = LogProgram(4, 4, 1, 1)
    /\ last = "step"
    /\ capture = CapOk
    /\ events[Len(events)]
          = HandlerLog(ParentContext.address, <<21, 22, 23, 24>>, <<238>>)
    /\ stack = <<>>

\* ------------------------------------------------------------------ C26
\* The recorded dispatch is a CALL* (CREATE*) opcode executed by step() or
\* run(); PreWord(i) is the i-th word from the top of the stack it found.
CallDispatched == dispatch.kind = "call"
CreateDispatched == dispatch.kind = "create"
PreDepth == Len(dispatch.pre.stack)
PreWord(i) == dispatch.pre.stack[PreDepth + 1 - i]
SelfPops == CallPops(SchemeOf(dispatch.opcode))

\* The input range of the call: in_offset and in_len, the last two words
\* call() pops itself.
InRangeValid ==
    /\ FitsUsize(PreWord(SelfPops - 1)) /\ FitsUsize(PreWord(SelfPops))
    /\ ResizeOffset(dispatch.pre.memory, PreWord(SelfPops - 1), PreWord(SelfPops)).ok

\* The output range: out_offset and out_len, the two words below them.
OutRangeValid ==
    /\ PreDepth >= SelfPops + 2
    /\ FitsUsize(PreWord(SelfPops + 1)) /\ FitsUsize(PreWord(SelfPops + 2))
    /\ ResizeOffset(dispatch.entry.memory, PreWord(SelfPops + 1),
                    PreWord(SelfPops + 2)).ok

\* The init code range of the create: code_offset and len.
CodeRangeValid ==
    /\ FitsUsize(PreWord(2)) /\ FitsUsize(PreWord(3))
    /\ ResizeOffset(dispatch.pre.memory, PreWord(2), PreWord(3)).ok

\* The dispatch returned Exit with a validation error.
ValidationExit ==
    /\ dispatch.ctl = "Exit"
    /\ dispatch.reason \in {StackUnderflow, NotSupported, InvalidRange}

\* C26 as stated: dispatch finishes popping and validating all of the
\* opcode's arguments before it invokes the Handler: when any argument of a
\* CALL* or CREATE* fails validation (an offset or length that does not fit
\* usize, including out_offset/out_len, or a memory resize that fails), the
\* frame exits without handler.call / handler.create having been invoked.
C26_AllArgsBeforeHandler ==
    /\ (CallDispatched /\ PreDepth >= SelfPops + 2
            /\ (~InRangeValid \/ ~OutRangeValid)) =>
          ~dispatch.invoked
    /\ (CreateDispatched /\ PreDepth >= 3 /\ ~CodeRangeValid) =>
          ~dispatch.invoked /\ ValidationExit

\* C26, amended: dispatch pops and validates the arguments the opcode
\* function itself reads before it invokes the Handler: when gas, to, value,
\* in_offset or in_len of a CALL* (value, code_offset, len or salt of a
\* CREATE*) is missing, does not fit usize or needs a resize that fails, the
\* frame exits without handler.call (handler.create) having been invoked.
\* out_offset and out_len of a CALL* are popped and validated only by
\* save_return_value, after handler.call has been invoked: when they are
\* missing or fail validation the call is invoked all the same, and the
\* frame exits with the validation error once the handler's Exit is merged.
C26_OwnArgsBeforeHandler ==
    /\ (CallDispatched /\ (PreDepth < SelfPops \/ ~InRangeValid)) =>
          /\ ~dispatch.invoked
          /\ ValidationExit
          /\ EventsOf(dispatch.post.events, "call") = {}
    /\ (CallDispatched /\ PreDepth >= SelfPops /\ InRangeValid) =>
          /\ dispatch.invoked
          /\ LastIs(dispatch.entry.events, "call")
          /\ Len(dispatch.entry.stack) = PreDepth - SelfPops
          /\ (~OutRangeValid /\ dispatch.resp.tag = "Exit") => ValidationExit
          /\ (~OutRangeValid /\ dispatch.resp.tag = "Trap") =>
                dispatch.ctl = "CallInterrupt"
    /\ (CreateDispatched
            /\ (PreDepth < 3 \/ ~CodeRangeValid
                   \/ (dispatch.opcode = "CREATE2" /\ PreDepth < 4))) =>
          /\ ~dispatch.invoked
          /\ ValidationExit
          /\ EventsOf(dispatch.post.events, "create") = {}
    /\ (CreateDispatched /\ PreDepth >= 3 /\ CodeRangeValid
            /\ (dispatch.opcode = "CREATE2" => PreDepth >= 4)) =>
          /\ dispatch.invoked
          /\ LastIs(dispatch.entry.events, "create")

\* A CALL whose in_len does not fit usize: handler.call was not invoked.
C26_Witness ==
    /\ CallDispatched /\ dispatch.opcode = "CALL"
    /\ PreDepth = 7
    /\ PreWord(5) = BIG
    /\ ~dispatch.invoked
    /\ capture = CapExit(NotSupported)
    /\ events # <<>> /\ EventsOf(events, "call") = {}

\* A CALL whose out_offset does not fit usize: handler.call was invoked and
\* answered, then the merge exited with NotSupported.
C26_DeferredWitness ==
    /\ CallDispatched /\ dispatch.opcode = "CALL"
    /\ PreDepth = 7 /\ PreWord(6) = BIG
    /\ dispatch.invoked /\ dispatch.resp.tag = "Exit"
    /\ capture = CapExit(NotSupported)

\* ------------------------------------------------------------------ C27
\* Up to k step() calls with the handler h, stopped at the first result that
\* is not Ok(()): the outcome of the last call, with the number of calls
\* that returned Ok(()).  Each call starts a record of its own.
RECURSIVE StepChain(_, _, _, _, _)
StepChain(rt, k, h, n, disp) ==
    IF k = 0 THEN Outcome(rt, CapOk, n, disp)
    ELSE The({ IF o.capture = CapOk
               THEN StepChain(o.rt, k - 1, Consume(h), n + 1, o.dispatch)
               ELSE Outcome(o.rt, o.capture, n, o.dispatch)
             : o \in {RuntimeStep([rt EXCEPT !.events = <<>>], h, disp)} })

\* run(k) returned r where the step() calls returned c: the same machine and
\* runtime state, and the same capture, Exit(StepLimitReached) standing for
\* a budget of step() calls all used.
SameOutcome(r, c, k) ==
    /\ r.rt.stack = c.rt.stack
    /\ r.rt.memory = c.rt.memory
    /\ r.rt.return_data_buffer = c.rt.return_data_buffer
    /\ r.rt.status = c.rt.status
    /\ r.rt.pc = c.rt.pc
    /\ r.rt.mexit = c.rt.mexit
    /\ IF c.capture = CapOk
       THEN /\ c.steps = k
            /\ r.capture = CapExit(IF c.rt.status = Running THEN StepLimitReached
                                   ELSE c.rt.status)
       ELSE r.capture = c.capture

\* C27: run() handles traps as step() does: from the same runtime state and
\* with the same handler, run(k) reaches the same stack, memory,
\* return_data_buffer, status and surfaced capture (Exit reason or Trap
\* kind) as repeated step() calls stopped at the first non-Ok result or
\* after k calls, for every k up to MaxRun.
C27_RunAsSteps ==
    pending = "none" =>
        \A k \in 0..MaxRun :
            \A h \in Handlers(RT, k) :
                SameOutcome(RuntimeRun(RT, k, h, dispatch),
                            StepChain(RT, k, h, 0, dispatch), k)

\* run(3) went through an SLOAD, which continued, and stopped at the budget.
C27_Witness ==
    /\ code = SLoadProgram
    /\ last = "run"
    /\ capture = CapExit(StepLimitReached)
    /\ pc = 4
    /\ stack = <<StorageValue(ParentContext.address, 2), 9>>
    /\ EventsOf(events, "SLoad") # {}

\* ------------------------------------------------------------------ C28
\* A handler that accepts the opcode and answers call/create with r.
DirectHandler(r) ==
    [fuel |-> 1, resp |-> r, set_storage |-> Running, log |-> Running,
     mark_delete |-> Running]

\* The step() of the suspended opcode taken again from the runtime it found,
\* with the handler answering Exit with the outcome r instead of Trap.
DirectStep(r) ==
    RuntimeStep([dispatch.pre EXCEPT !.events = <<>>], DirectHandler(r), dispatch)

\* The parent's state after the direct path d and after the resume c.
SameParent(d, c) ==
    /\ d.rt.stack = c.rt.stack
    /\ d.rt.memory = c.rt.memory
    /\ d.rt.return_data_buffer = c.rt.return_data_buffer
    /\ d.capture = (IF c.ctl = "Exit" THEN CapExit(c.reason) ELSE CapOk)

\* C28: for every CALL*/CREATE* and every child outcome (reason, return
\* data, created address), the parent's stack, memory and
\* return_data_buffer after the handler returns Trap and the suspension is
\* resolved with that outcome equal the parent's state when the handler
\* returns Exit with the same outcome directly, nothing touching the parent
\* between suspension and resolution; the Exit or Continue returned is the
\* same as well.
C28_SuspensionTransparent ==
    /\ pending = "call" =>
          \A r \in {x \in ExitResps : x.address = <<>>} :
              SameParent(DirectStep(r), save_return_value(RT, r.reason, r.data))
    /\ pending = "create" =>
          \A r \in ExitResps :
              SameParent(DirectStep(r), save_created_address(RT, r.reason, r.address))

\* A CREATE suspended and resolved with a created address: the parent holds
\* the address word, as after a direct Exit.
C28_Witness ==
    /\ dispatch.kind = "save_created_address"
    /\ dispatch.opcode = "CREATE"
    /\ dispatch.resp.reason = Returned
    /\ dispatch.resp.address = << <<10, 188>> >>
    /\ stack = <<2748>>
    /\ capture = Capture("Continue", Running)

\* ------------------------------------------------------------------ C29
\* The events a system-opcode dispatch produces and the handler operations
\* it invokes.
DispatchEvents ==
    {"SLoad", "SStore", "storage", "set_storage", "log", "mark_delete", "call",
     "create", "keccak256_h256"}

\* In the record es of one step() of a system opcode found with stack s, the
\* Step event comes first, the StepResult second, recording the trap and
\* the stack before the dispatch, and whatever the dispatch did follows.
ResultBeforeDispatch(es, s) ==
    /\ Len(es) >= 2
    /\ es[1].ev = "Step" /\ es[1].stack = s
    /\ es[2] = [ev |-> "StepResult", result |-> "Trap", stack |-> s]
    /\ \A i \in 3..Len(es) : es[i].ev \in DispatchEvents

\* C29: in step() the StepResult event of a trapping (system) opcode is
\* emitted before the system-opcode dispatch runs: the events of the
\* dispatch (SLoad, SStore) and every handler call or mutation of that
\* opcode come after that step's StepResult and before the next Step, never
\* between the Step and its StepResult, and the StepResult records the trap,
\* not the opcode's final outcome.  (A step pre_validate rejected leaves the
\* Step event alone: the opcode did not run.)
C29_ResultBeforeDispatch ==
    /\ (last = "step" /\ events # <<>>) =>
          /\ \A i \in 1..Len(events) : events[i].ev \in DispatchEvents => i > 2
          /\ (code[events[1].position].op \in SystemOps /\ Len(events) > 1) =>
                ResultBeforeDispatch(events, events[1].stack)
    /\ (pending = "none" /\ HasNext(RT) /\ code[pc].op \in SystemOps) =>
          \A h \in Handlers(RT, 1) :
              PreValidateOk(h) =>
                  \A o \in {RuntimeStep(RT, h, dispatch)} :
                      ResultBeforeDispatch(o.rt.events, stack)

\* An SSTORE the handler rejected, executed by step(): the StepResult
\* records the trap and the two words still on the stack, the SStore event
\* and set_storage follow, and the step returned Exit.
C29_Witness ==
    /\ code = SLoadProgram
    /\ last = "step"
    /\ capture = CapExit(StorageError)
    /\ Len(events) = 4
    /\ events[2] = [ev |-> "StepResult", result |-> "Trap",
                     stack |-> <<StorageValue(ParentContext.address, 2), 9, 2>>]
    /\ events[3].ev = "SStore" /\ events[4].ev = "set_storage"
    /\ stack = <<StorageValue(ParentContext.address, 2)>>

\* An SLOAD executed by step(): handler.storage and the SLoad event follow
\* the StepResult.
C29_SLoadWitness ==
    /\ code = SLoadProgram
    /\ last = "step"
    /\ Len(events) = 4
    /\ events[2] = [ev |-> "StepResult", result |-> "Trap", stack |-> <<2>>]
    /\ events[3] = HandlerStorage(ParentContext.address, 2)
    /\ events[4] = SLoadEvent(ParentContext.address, 2,
                              StorageValue(ParentContext.address, 2))

====
